---- MODULE Spec2Model ----
(***************************************************************************)
(* Verification development for the dnsx DNS client.                       *)
(*                                                                         *)
(*   - the wire codec (src/package.json carries both drafts of the         *)
(*     protocol module: draft 1 at lines 114-588, draft 2 at 590-1021),    *)
(*   - the query orchestrator DnsClient.query (src/src/client.ts),         *)
(*   - the UDP, TCP and TLS transports (src/unnamed/part_000).             *)
(*                                                                         *)
(* Strings are sequences of character codes, buffers are sequences of      *)
(* octets; octet i of a buffer b (0-based, as in the source) is b[i+1].    *)
(***************************************************************************)
EXTENDS Integers, Sequences, FiniteSets, TLC

VARIABLES
  \* ---- flag codec harness
  fin, fout, fpc,
  \* ---- query encode / decode harness
  qin, qout, qpc,
  \* ---- name decoder (both drafts), one loop iteration or call per step
  dbuf, draft, n1, n2, dres,
  \* ---- record decode harness: DnsDecoder.readAnswer on a generated record
  ain, aout, apc,
  \* ---- one call of Transport.query: its inputs and the state of its closure
  tin, tq,
  \* ---- DnsClient.query
  opts, pc, nameserver, queries, qi, request, attempt, inflight,
  responses, lastError, error, backoffTime,
  \* ---- the network the client talks to: the replies and errors it can give
  net,
  \* ---- observations of the run of DnsClient.query
  calls, nCalls, nFallbacks, waits, accepted, anyOk, reads

flagVars   == <<fin, fout, fpc>>
queryVars  == <<qin, qout, qpc>>
nameVars   == <<dbuf, draft, n1, n2, dres>>
answerVars == <<ain, aout, apc>>
socketVars == <<tin, tq>>
clientVars == <<opts, pc, nameserver, queries, qi, request, attempt, inflight,
                responses, lastError, error, backoffTime, net,
                calls, nCalls, nFallbacks, waits, accepted, anyOk, reads>>
vars == <<flagVars, queryVars, nameVars, answerVars, socketVars, clientVars>>

----------------------------------------------------------------------------
(* Bounds of the model                                                     *)

MaxLabels  == 6      \* labels per generated query name
MaxBufLen  == 4      \* octets of a generated name buffer
MaxRetries == 4      \* largest value of the retries option
MaxDomains == 2      \* domains per client
MaxRData   == 4      \* octets that follow RDLENGTH in a generated record
MaxMsgLen  == 2      \* octets of a short message framed on a TCP or TLS stream
MaxChunk   == 3      \* octets of a 'data' chunk that is not the rest of the stream

----------------------------------------------------------------------------
(* Program constants                                                       *)

DNS_HEADER_SIZE  == 12
MAX_LABEL_LENGTH == 63
MAX_NAME_LENGTH  == 255
TIMEOUT          == 5000
JumpLimit        == 5
DefaultRetries   == 3
BackoffUnit      == 1000

RT_A     == 1
RT_NS    == 2
RT_CNAME == 5
RT_PTR   == 12
RT_MX    == 15
RT_TXT   == 16
RT_AAAA  == 28
RT_CAA   == 257
QC_IN    == 1
QC_CH    == 3
QC_HS    == 4

DOT == 46

----------------------------------------------------------------------------
(* JavaScript number and Buffer primitives                                 *)

\* the value of reading past the end of a Buffer (undefined)
Undefined == -1

\* ToInt32 of an operand of a bitwise operator: undefined becomes 0
ToInt(x) == IF x = Undefined THEN 0 ELSE x

RECURSIVE Pow2(_)
Pow2(n) == IF n = 0 THEN 1 ELSE 2 * Pow2(n - 1)

RECURSIVE BitAndNat(_, _)
BitAndNat(a, b) ==
  IF a = 0 \/ b = 0 THEN 0
  ELSE (a % 2) * (b % 2) + 2 * BitAndNat(a \div 2, b \div 2)

RECURSIVE BitOrNat(_, _)
BitOrNat(a, b) ==
  IF a = 0 THEN b
  ELSE IF b = 0 THEN a
  ELSE (IF a % 2 = 1 \/ b % 2 = 1 THEN 1 ELSE 0) + 2 * BitOrNat(a \div 2, b \div 2)

BitAnd(a, b) == BitAndNat(ToInt(a), ToInt(b))
BitOr(a, b)  == BitOrNat(ToInt(a), ToInt(b))
Shl(a, n)    == ToInt(a) * Pow2(n)
Shr(a, n)    == ToInt(a) \div Pow2(n)

\* buffer[i]
ByteAt(buf, i) == IF i >= 0 /\ i < Len(buf) THEN buf[i + 1] ELSE Undefined

\* buffer.slice(from, to), both clamped to the buffer
Slice(buf, from, to) ==
  LET f == IF from > Len(buf) THEN Len(buf) ELSE from
      t == IF to > Len(buf) THEN Len(buf) ELSE to
  IN  IF t <= f THEN <<>> ELSE SubSeq(buf, f + 1, t)

\* the two octets buffer.writeUInt16BE(value) stores
UInt16BE(v) == <<(v \div 256) % 256, v % 256>>

\* buffer.readUInt16BE(off), defined when off + 2 <= length
ReadUInt16BE(buf, off) == buf[off + 1] * 256 + buf[off + 2]

\* buffer.readUInt32BE(off), defined when off + 4 <= length
ReadUInt32BE(buf, off) ==
  ((buf[off + 1] * 256 + buf[off + 2]) * 256 + buf[off + 3]) * 256 + buf[off + 4]

\* name.split('.')
\* the index of the first '.' at or after i, Len(s) + 1 when there is none
NextDot(s, i) ==
  CHOOSE k \in i..(Len(s) + 1) :
    /\ k = Len(s) + 1 \/ s[k] = DOT
    /\ \A j \in i..(k - 1) : s[j] # DOT

RECURSIVE SplitFrom(_, _, _, _)
SplitFrom(s, i, k, acc) ==
  IF k > Len(s) THEN Append(acc, SubSeq(s, i, Len(s)))
  ELSE SplitFrom(s, k + 1, NextDot(s, k + 1), Append(acc, SubSeq(s, i, k - 1)))

Split(s) == SplitFrom(s, 1, NextDot(s, 1), <<>>)

\* labels.join('.')
RECURSIVE Join(_)
Join(labels) ==
  IF labels = <<>> THEN <<>>
  ELSE IF Len(labels) = 1 THEN labels[1]
  ELSE labels[1] \o <<DOT>> \o Join(Tail(labels))

\* results of the decoder's methods: a value and the cursor, or an error
Ok(v, off)   == [ok |-> TRUE,  err |-> "",  val |-> v,    off |-> off]
Err(msg)     == [ok |-> FALSE, err |-> msg, val |-> <<>>, off |-> 0]

----------------------------------------------------------------------------
(* DnsFlags, draft 1                                                       *)

FlagsDefault ==
  [response |-> FALSE, opcode |-> 0, authoritative |-> FALSE,
   truncated |-> FALSE, recursionDesired |-> FALSE,
   recursionAvailable |-> FALSE, authenticData |-> FALSE,
   checkingDisabled |-> FALSE, responseCode |-> 0]

FromBuffer1(buffer) ==
  LET rawFlags == ReadUInt16BE(buffer, 0)
  IN  [response           |-> BitAnd(rawFlags, 32768) # 0,
       opcode             |-> Shr(BitAnd(rawFlags, 30720), 11),
       authoritative      |-> BitAnd(rawFlags, 1024) # 0,
       truncated          |-> BitAnd(rawFlags, 512) # 0,
       recursionDesired   |-> BitAnd(rawFlags, 256) # 0,
       recursionAvailable |-> BitAnd(rawFlags, 128) # 0,
       authenticData      |-> BitAnd(rawFlags, 32) # 0,
       checkingDisabled   |-> BitAnd(rawFlags, 16) # 0,
       responseCode       |-> BitAnd(rawFlags, 15)]

\* DnsFlags.fromBuffer, draft 2: reads the octets at indexes 2 and 3 of the
\* buffer it is given
FromBuffer2(buffer) ==
  LET byte1 == ByteAt(buffer, 2)
      byte2 == ByteAt(buffer, 3)
  IN  [response           |-> BitAnd(byte1, 128) # 0,
       opcode             |-> Shr(BitAnd(byte1, 120), 3),
       authoritative      |-> BitAnd(byte1, 4) # 0,
       truncated          |-> BitAnd(byte1, 2) # 0,
       recursionDesired   |-> BitAnd(byte1, 1) # 0,
       recursionAvailable |-> BitAnd(byte2, 128) # 0,
       authenticData      |-> BitAnd(byte2, 32) # 0,
       checkingDisabled   |-> BitAnd(byte2, 16) # 0,
       responseCode       |-> BitAnd(byte2, 15)]

\* ToBuffer1 with OPCODE shifted one bit too far
ToBuffer1OpcodeShift12(f) ==
  LET f0 == IF f.response THEN 32768 ELSE 0
      f1 == BitOr(f0, Shl(BitAnd(f.opcode, 15), 12))
      f2 == IF f.authoritative THEN BitOr(f1, 1024) ELSE f1
      f3 == IF f.truncated THEN BitOr(f2, 512) ELSE f2
      f4 == IF f.recursionDesired THEN BitOr(f3, 256) ELSE f3
      f5 == IF f.recursionAvailable THEN BitOr(f4, 128) ELSE f4
      f6 == IF f.authenticData THEN BitOr(f5, 32) ELSE f5
      f7 == IF f.checkingDisabled THEN BitOr(f6, 16) ELSE f6
      f8 == BitOr(f7, BitAnd(f.responseCode, 15))
  IN  UInt16BE(f8)

ToBuffer1(f) ==
  LET f0 == IF f.response THEN 32768 ELSE 0
      f1 == BitOr(f0, Shl(BitAnd(f.opcode, 15), 11))
      f2 == IF f.authoritative THEN BitOr(f1, 1024) ELSE f1
      f3 == IF f.truncated THEN BitOr(f2, 512) ELSE f2
      f4 == IF f.recursionDesired THEN BitOr(f3, 256) ELSE f3
      f5 == IF f.recursionAvailable THEN BitOr(f4, 128) ELSE f4
      f6 == IF f.authenticData THEN BitOr(f5, 32) ELSE f5
      f7 == IF f.checkingDisabled THEN BitOr(f6, 16) ELSE f6
      f8 == BitOr(f7, BitAnd(f.responseCode, 15))
  IN  UInt16BE(f8)

\* ToBuffer2 with OPCODE shifted one bit too far
ToBuffer2OpcodeShift4(f) ==
  LET a0 == IF f.response THEN BitOr(0, 128) % 256 ELSE 0
      a1 == BitOr(a0, Shl(BitAnd(f.opcode, 15), 4)) % 256
      a2 == IF f.authoritative THEN BitOr(a1, 4) % 256 ELSE a1
      a3 == IF f.truncated THEN BitOr(a2, 2) % 256 ELSE a2
      a4 == IF f.recursionDesired THEN BitOr(a3, 1) % 256 ELSE a3
      b0 == IF f.recursionAvailable THEN BitOr(0, 128) % 256 ELSE 0
      b1 == IF f.authenticData THEN BitOr(b0, 32) % 256 ELSE b0
      b2 == IF f.checkingDisabled THEN BitOr(b1, 16) % 256 ELSE b1
      b3 == BitOr(b2, BitAnd(f.responseCode, 15)) % 256
  IN  <<a4, b3>>

\* DnsFlags.toBuffer, draft 2: the bits are set in the two octets of
\* Buffer.alloc(2); an octet of a Buffer keeps the low eight bits of what is
\* stored
ToBuffer2(f) ==
  LET a0 == IF f.response THEN BitOr(0, 128) % 256 ELSE 0
      a1 == BitOr(a0, Shl(BitAnd(f.opcode, 15), 3)) % 256
      a2 == IF f.authoritative THEN BitOr(a1, 4) % 256 ELSE a1
      a3 == IF f.truncated THEN BitOr(a2, 2) % 256 ELSE a2
      a4 == IF f.recursionDesired THEN BitOr(a3, 1) % 256 ELSE a3
      b0 == IF f.recursionAvailable THEN BitOr(0, 128) % 256 ELSE 0
      b1 == IF f.authenticData THEN BitOr(b0, 32) % 256 ELSE b0
      b2 == IF f.checkingDisabled THEN BitOr(b1, 16) % 256 ELSE b1
      b3 == BitOr(b2, BitAnd(f.responseCode, 15)) % 256
  IN  <<a4, b3>>

----------------------------------------------------------------------------
(* DnsEncoder and buildQuery, draft 1                                      *)

\* buffer.write(label): the UTF-8 octets of an ASCII string are its codes
Utf8Write(str) == str

\* DnsEncoder.writeName: the octets appended, or the error thrown
RECURSIVE WriteLabels(_, _, _)
WriteLabels(labels, i, out) ==
  IF i > Len(labels) THEN Ok(out \o <<0>>, Len(out) + 1)
  ELSE IF Len(labels[i]) > MAX_LABEL_LENGTH THEN Err("Label too long")
  ELSE WriteLabels(labels, i + 1, out \o <<Len(labels[i])>> \o Utf8Write(labels[i]))

WriteName(name) == WriteLabels(Split(name), 1, <<>>)

\* DnsEncoder.writeHeader
WriteHeader(id, flags, counts) ==
  UInt16BE(id) \o ToBuffer1(flags) \o UInt16BE(counts.qdcount)
    \o UInt16BE(counts.ancount) \o UInt16BE(counts.nscount)
    \o UInt16BE(counts.arcount)

\* DnsEncoder.writeQuestion
WriteQuestion(query) ==
  LET nm == WriteName(query.name)
  IN  IF ~nm.ok THEN nm
      ELSE Ok(nm.val \o UInt16BE(query.type) \o UInt16BE(query.class),
              Len(nm.val) + 4)

\* options.tweaks with no tweak set (an absent tweak is undefined, which is
\* falsy)
NoTweaks ==
  [authoritative |-> FALSE, authenticData |-> FALSE, checkingDisabled |-> FALSE]

\* buildQuery(query, options); rnd is the value Math.random() yields.  The
\* function reads options.txid and options.id only: options.edns and
\* options.tweaks are accepted and never read.
BuildQuery(query, options, rnd) ==
  LET flags == [FlagsDefault EXCEPT !.recursionDesired = TRUE, !.response = FALSE]
      id    == IF options.txid # Undefined THEN options.txid
               ELSE IF options.id # Undefined THEN options.id
               ELSE rnd
      hdr   == WriteHeader(id, flags,
                 [qdcount |-> 1, ancount |-> 0, nscount |-> 0, arcount |-> 0])
      qs    == WriteQuestion(query)
  IN  IF ~qs.ok THEN qs ELSE Ok(hdr \o qs.val, Len(hdr) + Len(qs.val))

----------------------------------------------------------------------------
(* DnsDecoder, draft 1                                                     *)

OutOfBounds == "Out of bounds access"

\* DnsDecoder.canRead
CanRead(buf, offset, bytes) == offset + bytes <= Len(buf)

\* buffer.slice(..).toString('ascii'): the high bit of each octet is dropped
AsciiToString(bytes) == [i \in 1..Len(bytes) |-> bytes[i] % 128]

\* locals of readName at the top of its for loop
ReadName1Start(offset) ==
  [status |-> "run", err |-> "", offset |-> offset, jumps |-> 0,
   labels |-> <<>>, jumping |-> FALSE, jumpOffset |-> offset]

\* one pass through the body of the for loop of readName; s.jumps < JumpLimit
ReadName1Iter(buf, s) ==
  IF s.jumpOffset >= Len(buf)
  THEN [s EXCEPT !.status = "err", !.err = OutOfBounds]
  ELSE
    LET len == ByteAt(buf, s.jumpOffset)
    IN  IF len = 0
        THEN [s EXCEPT !.status = "ret",
                       !.offset = IF ~s.jumping THEN s.jumpOffset + 1 ELSE s.offset]
        ELSE IF BitAnd(len, 192) = 192
        THEN IF ~CanRead(buf, s.offset, 2)
             THEN [s EXCEPT !.status = "err", !.err = OutOfBounds]
             ELSE [s EXCEPT
                     !.offset = IF ~s.jumping THEN s.jumpOffset + 2 ELSE s.offset,
                     !.jumping = TRUE,
                     !.jumpOffset = BitOr(Shl(BitAnd(len, 63), 8),
                                          ByteAt(buf, s.jumpOffset + 1)),
                     !.jumps = s.jumps + 1]
        ELSE IF s.jumpOffset + 1 + len > Len(buf)
        THEN [s EXCEPT !.status = "err", !.err = OutOfBounds]
        ELSE [s EXCEPT
                !.labels = Append(s.labels,
                             AsciiToString(Slice(buf, s.jumpOffset + 1,
                                                 s.jumpOffset + 1 + len))),
                !.jumpOffset = s.jumpOffset + 1 + len,
                !.jumps = s.jumps + 1]

\* the for loop of readName: leaves when the body broke or threw, or when
\* the loop condition jumps < 5 fails
ReadName1Exit(s) ==
  IF s.status = "run" /\ s.jumps >= JumpLimit THEN [s EXCEPT !.status = "ret"] ELSE s

RECURSIVE ReadName1Loop(_, _)
ReadName1Loop(buf, s) ==
  IF s.status # "run" THEN s
  ELSE IF s.jumps >= JumpLimit THEN ReadName1Exit(s)
  ELSE ReadName1Loop(buf, ReadName1Iter(buf, s))

\* what readName gives once its loop is left: the error thrown in the loop,
\* or return labels.join('.') with the cursor the loop left
ReadName1Result(s) ==
  IF s.status = "err" THEN Err(s.err) ELSE Ok(Join(s.labels), s.offset)

\* DnsDecoder.readName
ReadName1(buf, offset) == ReadName1Result(ReadName1Loop(buf, ReadName1Start(offset)))

\* DnsDecoder.readUint16 / readUint32
ReadUint16(buf, offset) ==
  IF ~CanRead(buf, offset, 2) THEN Err(OutOfBounds)
  ELSE Ok(ReadUInt16BE(buf, offset), offset + 2)

ReadUint32(buf, offset) ==
  IF ~CanRead(buf, offset, 4) THEN Err(OutOfBounds)
  ELSE Ok(ReadUInt32BE(buf, offset), offset + 4)

\* DnsDecoder.readHeader
ReadHeader1(buf, offset) ==
  IF ~CanRead(buf, offset, DNS_HEADER_SIZE) THEN Err("Invalid DNS header size")
  ELSE
    LET id    == ReadUInt16BE(buf, offset)
        flags == FromBuffer1(Slice(buf, offset + 2, Len(buf)))
    IN  Ok([id |-> id, flags |-> flags,
            counts |-> [qdcount |-> ReadUInt16BE(buf, offset + 4),
                        ancount |-> ReadUInt16BE(buf, offset + 6),
                        nscount |-> ReadUInt16BE(buf, offset + 8),
                        arcount |-> ReadUInt16BE(buf, offset + 10)]],
           offset + 12)

\* readQuestion after const name = this.readName()
ReadQuestion1Fields(buf, nm) ==
  IF ~nm.ok THEN nm
  ELSE IF ~CanRead(buf, nm.off, 4) THEN Err(OutOfBounds)
  ELSE Ok([name |-> nm.val,
           type |-> ReadUInt16BE(buf, nm.off),
           class |-> ReadUInt16BE(buf, nm.off + 2)],
          nm.off + 4)

\* DnsDecoder.readQuestion
ReadQuestion1(buf, offset) == ReadQuestion1Fields(buf, ReadName1(buf, offset))

\* number.toString() and number.toString(16)
RECURSIVE Dec(_)
Dec(n) == IF n < 10 THEN <<48 + n>> ELSE Dec(n \div 10) \o <<48 + (n % 10)>>

HexDigit(d) == IF d < 10 THEN 48 + d ELSE 87 + d

RECURSIVE Hex(_)
Hex(n) == IF n < 16 THEN <<HexDigit(n)>> ELSE Hex(n \div 16) \o <<HexDigit(n % 16)>>

\* buffer.toString('hex'): two lowercase digits per octet
RECURSIVE HexString(_)
HexString(bytes) ==
  IF bytes = <<>> THEN <<>>
  ELSE <<HexDigit(bytes[1] \div 16), HexDigit(bytes[1] % 16)>> \o HexString(Tail(bytes))

\* buffer.toString(): UTF-8 decoding; an ASCII octet is its own character and
\* an octet that starts no valid sequence becomes U+FFFD
Utf8ToString(bytes) ==
  [i \in 1..Len(bytes) |-> IF bytes[i] < 128 THEN bytes[i] ELSE 65533]

\* parts.join(sep)
RECURSIVE JoinWith(_, _)
JoinWith(parts, sep) ==
  IF parts = <<>> THEN <<>>
  ELSE IF Len(parts) = 1 THEN parts[1]
  ELSE parts[1] \o <<sep>> \o JoinWith(Tail(parts), sep)

\* DnsDecoder.readIPv4
ReadIPv4(buf, offset) ==
  IF ~CanRead(buf, offset, 4) THEN Err(OutOfBounds)
  ELSE Ok(JoinWith([i \in 1..4 |-> Dec(buf[offset + i])], DOT), offset + 4)

\* DnsDecoder.readIPv6
ReadIPv6(buf, offset) ==
  IF ~CanRead(buf, offset, 16) THEN Err(OutOfBounds)
  ELSE Ok(JoinWith([i \in 1..8 |-> Hex(ReadUInt16BE(buf, offset + 2 * (i - 1)))], 58),
          offset + 16)

\* DnsDecoder.readString
ReadString(buf, offset, length) ==
  IF ~CanRead(buf, offset, length) THEN Err(OutOfBounds)
  ELSE Ok(Utf8ToString(Slice(buf, offset, offset + length)), offset + length)

\* case RecordType.MX after const exchange = this.readName()
ReadMx1(preference, ex) ==
  IF ~ex.ok THEN ex
  ELSE Ok([preference |-> preference, exchange |-> ex.val], ex.off)

\* the switch of DnsDecoder.readRData: the data and the cursor after it
ReadRDataSwitch1(buf, offset, type, length) ==
  CASE type = RT_A ->
         IF length # 4 THEN Err("Invalid IPv4 length") ELSE ReadIPv4(buf, offset)
    [] type = RT_AAAA ->
         IF length # 16 THEN Err("Invalid IPv6 length") ELSE ReadIPv6(buf, offset)
    [] type = RT_MX ->
         IF length < 3 THEN Err("Invalid MX record length")
         ELSE LET pref == ReadUint16(buf, offset)
              IN  IF ~pref.ok THEN pref
                  ELSE ReadMx1(pref.val, ReadName1(buf, pref.off))
    [] type = RT_TXT -> ReadString(buf, offset, length)
    [] type \in {RT_CNAME, RT_NS, RT_PTR} -> ReadName1(buf, offset)
    [] OTHER -> Ok(HexString(Slice(buf, offset, offset + length)), offset + length)

\* ReadRData1Adjust without the correction of the cursor
ReadRData1NoAdjust(r, offset, length) == r

\* readRData after its switch: the cursor is moved to startOffset + length
\* when the switch read another number of octets
ReadRData1Adjust(r, offset, length) ==
  LET bytesRead == r.off - offset
  IN  IF ~r.ok THEN r
      ELSE IF bytesRead # length THEN Ok(r.val, offset + length)
      ELSE r

\* DnsDecoder.readRData
ReadRData1(buf, offset, type, length) ==
  ReadRData1Adjust(ReadRDataSwitch1(buf, offset, type, length), offset, length)

\* readAnswer after const data = this.readRData(type, rdlength)
ReadAnswer1Record(name, type, qclass, ttl, data) ==
  IF ~data.ok THEN data
  ELSE Ok([name |-> name, type |-> type, class |-> qclass, ttl |-> ttl,
           data |-> data.val], data.off)

\* ReadAnswer1Fields without the check of RDLENGTH against the buffer
ReadAnswer1FieldsUnchecked(buf, nm) ==
  IF ~nm.ok THEN nm
  ELSE IF ~CanRead(buf, nm.off, 10) THEN Err(OutOfBounds)
  ELSE ReadAnswer1Record(nm.val, ReadUInt16BE(buf, nm.off),
                         ReadUInt16BE(buf, nm.off + 2), ReadUInt32BE(buf, nm.off + 4),
                         ReadRData1(buf, nm.off + 10, ReadUInt16BE(buf, nm.off),
                                    ReadUInt16BE(buf, nm.off + 8)))

\* readAnswer after const name = this.readName()
ReadAnswer1Fields(buf, nm) ==
  IF ~nm.ok THEN nm
  ELSE IF ~CanRead(buf, nm.off, 10) THEN Err(OutOfBounds)
  ELSE
    LET type     == ReadUInt16BE(buf, nm.off)
        qclass   == ReadUInt16BE(buf, nm.off + 2)
        ttl      == ReadUInt32BE(buf, nm.off + 4)
        rdlength == ReadUInt16BE(buf, nm.off + 8)
    IN  IF ~CanRead(buf, nm.off + 10, rdlength) THEN Err(OutOfBounds)
        ELSE ReadAnswer1Record(nm.val, type, qclass, ttl,
                               ReadRData1(buf, nm.off + 10, type, rdlength))

\* DnsDecoder.readAnswer
ReadAnswer1(buf, offset) == ReadAnswer1Fields(buf, ReadName1(buf, offset))

\* for (i < qdcount) decoder.readQuestion(): the cursor after the questions
RECURSIVE SkipQuestions1(_, _, _)
SkipQuestions1Next(buf, q, n) ==
  IF ~q.ok THEN q ELSE SkipQuestions1(buf, q.off, n)

SkipQuestions1(buf, offset, n) ==
  IF n = 0 THEN Ok(<<>>, offset)
  ELSE SkipQuestions1Next(buf, ReadQuestion1(buf, offset), n - 1)

\* for (i < count) list.push(decoder.readAnswer())
RECURSIVE ReadAnswers1(_, _, _, _)
ReadAnswers1Next(buf, a, n, acc) ==
  IF ~a.ok THEN a ELSE ReadAnswers1(buf, a.off, n, Append(acc, a.val))

ReadAnswers1(buf, offset, n, acc) ==
  IF n = 0 THEN Ok(acc, offset)
  ELSE ReadAnswers1Next(buf, ReadAnswer1(buf, offset), n - 1, acc)

\* parseResponse after the additional records are read: the DnsResponse
ParseResponse1Result(h, an, ns, ar) ==
  IF ~ar.ok THEN ar
  ELSE Ok([id |-> h.id, flags |-> h.flags, answers |-> an,
           authorities |-> ns, additionals |-> ar.val], ar.off)

\* parseResponse after the authority records are read
ParseResponse1Additionals(buffer, h, an, ns) ==
  IF ~ns.ok THEN ns
  ELSE ParseResponse1Result(h, an, ns.val,
                            ReadAnswers1(buffer, ns.off, h.counts.arcount, <<>>))

\* parseResponse after the answer records are read
ParseResponse1Authorities(buffer, h, an) ==
  IF ~an.ok THEN an
  ELSE ParseResponse1Additionals(buffer, h, an.val,
                                 ReadAnswers1(buffer, an.off, h.counts.nscount, <<>>))

\* parseResponse after the questions are skipped
ParseResponse1Answers(buffer, h, qs) ==
  IF ~qs.ok THEN qs
  ELSE ParseResponse1Authorities(buffer, h,
                                 ReadAnswers1(buffer, qs.off, h.counts.ancount, <<>>))

\* parseResponse, draft 1
ParseResponse1(buffer) ==
  IF Len(buffer) < 4 THEN Err("RangeError")
  ELSE IF BitAnd(ReadUInt16BE(buffer, 2), 32768) = 0 THEN Err("Not a DNS response")
  ELSE
    LET h == ReadHeader1(buffer, 0)
    IN  IF ~h.ok THEN h
        ELSE ParseResponse1Answers(buffer, h.val,
                                   SkipQuestions1(buffer, h.off, h.val.counts.qdcount))

\* DnsDecoder.readHeader, draft 2: the flags are decoded from a slice of
\* two octets
ReadHeader2(buf, offset) ==
  IF Len(buf) < DNS_HEADER_SIZE THEN Err("Invalid DNS header size")
  ELSE
    LET id    == ReadUInt16BE(buf, offset)
        flags == FromBuffer2(Slice(buf, offset + 2, offset + 4))
    IN  Ok([id |-> id, flags |-> flags,
            counts |-> [qdcount |-> ReadUInt16BE(buf, offset + 4),
                        ancount |-> ReadUInt16BE(buf, offset + 6),
                        nscount |-> ReadUInt16BE(buf, offset + 8),
                        arcount |-> ReadUInt16BE(buf, offset + 10)]],
           offset + 12)

\* parseResponse, draft 2, up to its test of flags.response: the header it
\* read, or the error thrown.  The sections are read after the test.
ParseResponse2Header(buffer) ==
  LET h == ReadHeader2(buffer, 0)
  IN  IF ~h.ok THEN h
      ELSE IF ~h.val.flags.response THEN Err("Not a DNS response")
      ELSE h

----------------------------------------------------------------------------
(* DnsDecoder.readName, draft 2 (recursive), as a machine: one step per    *)
(* call, loop pass or return.  A frame of the stack holds the locals of a  *)
(* suspended caller: its labels, its savedOffset, and the offset at which  *)
(* it was entered.                                                         *)

ReadName2Start(offset) ==
  [status |-> "entry", entry |-> offset, offset |-> offset, length |-> 0,
   labels |-> <<>>, stack |-> <<>>]

\* const labels = []; let length = this.buffer[this.offset++]
ReadName2Enter(buf, s) ==
  [s EXCEPT !.status = "loop", !.labels = <<>>,
            !.length = ByteAt(buf, s.offset), !.offset = s.offset + 1]

\* one evaluation of the while condition and, when it holds, of the body
ReadName2Iter(buf, s) ==
  IF ~(s.length > 0) THEN [s EXCEPT !.status = "exit"]
  ELSE IF BitAnd(s.length, 192) = 192
  THEN LET pointer == BitOr(Shl(BitAnd(s.length, 63), 8), ByteAt(buf, s.offset))
       IN  [s EXCEPT !.status = "entry", !.entry = pointer, !.offset = pointer,
                     !.stack = Append(s.stack,
                                 [labels |-> s.labels, saved |-> s.offset + 1,
                                  entry |-> s.entry])]
  ELSE [s EXCEPT
          !.labels = Append(s.labels,
                       Utf8ToString(Slice(buf, s.offset, s.offset + s.length))),
          !.length = ByteAt(buf, s.offset + s.length),
          !.offset = s.offset + s.length + 1]

\* return labels.join('.') into the caller, which pushes it, restores its
\* offset and breaks out of its loop
ReadName2Return(s) ==
  LET top == s.stack[Len(s.stack)]
  IN  [s EXCEPT !.status = "exit", !.entry = top.entry, !.offset = top.saved,
                !.labels = Append(top.labels, Join(s.labels)),
                !.stack = SubSeq(s.stack, 1, Len(s.stack) - 1)]

----------------------------------------------------------------------------
(* Idle values of the machines                                             *)

FlagIdle ==
  /\ fin = FlagsDefault
  /\ fout = [bytes |-> <<0, 0>>, bytes2 |-> <<0, 0>>, flags |-> FlagsDefault]
  /\ fpc = "idle"

NoQuery == [name |-> <<>>, type |-> 0, class |-> 0]

QueryIdle ==
  /\ qin = [query |-> NoQuery,
            options |-> [txid |-> Undefined, id |-> Undefined, tweaks |-> NoTweaks],
            rnd |-> 0]
  /\ qout = [req |-> Err(""), header |-> Err(""), question |-> Err("")]
  /\ qpc = "idle"

NameIdle ==
  /\ dbuf = <<>>
  /\ draft = 0
  /\ n1 = ReadName1Start(0)
  /\ n2 = ReadName2Start(0)
  /\ dres = Err("")

SocketIdle ==
  /\ tin = [kind |-> "none", request |-> <<>>, stream |-> <<>>, authorized |-> FALSE]
  /\ tq = [socket |-> "none", timer |-> "none", write |-> "none", wire |-> <<>>,
           data |-> <<>>, expectedLength |-> -1, rest |-> <<>>, firstChunk |-> 0, destroys |-> 0,
           promise |-> [state |-> "pending", value |-> <<>>, err |-> ""]]

AnswerIdle ==
  /\ ain = [buf |-> <<>>, offset |-> 0]
  /\ aout = Err("")
  /\ apc = "idle"

----------------------------------------------------------------------------
(* Flag codec: every Flags value is encoded by both drafts, then decoded   *)

FlagsValues ==
  [response : BOOLEAN, opcode : 0..15, authoritative : BOOLEAN,
   truncated : BOOLEAN, recursionDesired : BOOLEAN,
   recursionAvailable : BOOLEAN, authenticData : BOOLEAN,
   checkingDisabled : BOOLEAN, responseCode : 0..15]

FlagRoundTrip ==
  /\ fpc = "ready"
  /\ fout' = [bytes |-> ToBuffer1(fin), bytes2 |-> ToBuffer2(fin),
              flags |-> FromBuffer1(ToBuffer1(fin))]
  /\ fpc' = "done"
  /\ UNCHANGED <<fin, queryVars, nameVars, clientVars,
               answerVars, socketVars>>

----------------------------------------------------------------------------
(* Query codec: buildQuery, then readHeader and readQuestion on its output *)

LetterA == 97

LongLabel == [i \in 1..MAX_LABEL_LENGTH |-> LetterA]

\* "a", "x-1" and a label of 63 letters
LabelChoices == {<<LetterA>>, <<120, 45, 49>>, LongLabel}

NamesOf(n) == {Join(ls) : ls \in [1..n -> LabelChoices]}

\* wire length of a name: one length octet per label, the labels, the zero
WireLength(name) == Len(name) + 2

ValidNames ==
  {nm \in UNION {NamesOf(n) : n \in 1..MaxLabels} :
     WireLength(nm) <= MAX_NAME_LENGTH}

\* new DnsEncoder(): Buffer.alloc(size) with size = 512
EncoderSize == 512

\* names whose encoded form is longer than 255 octets; the query built for
\* them still fits the encoder's buffer
LongNames ==
  {nm \in UNION {NamesOf(n) : n \in 1..MaxLabels} :
     /\ WireLength(nm) > MAX_NAME_LENGTH
     /\ DNS_HEADER_SIZE + WireLength(nm) + 4 <= EncoderSize}

\* the tweaks of -Z aa, -Z ad and -Z cd, alone and together
TweakChoices ==
  [authoritative : BOOLEAN, authenticData : BOOLEAN, checkingDisabled : BOOLEAN]

\* labels of n letters
Letters(n) == [i \in 1..n |-> LetterA]

\* names at the limits of validateDomainName: 253 and 254 characters, a
\* label of 64 letters, an empty name, an empty label, a leading dot, and a
\* character that is no letter, digit or hyphen
LimitNames ==
  {Join(<<LongLabel, LongLabel, LongLabel, Letters(MAX_LABEL_LENGTH - 2)>>),
   Join(<<LongLabel, LongLabel, LongLabel, Letters(MAX_LABEL_LENGTH - 1)>>),
   Letters(MAX_LABEL_LENGTH + 1),
   <<>>,
   <<LetterA, DOT, DOT, LetterA>>,
   <<DOT, LetterA>>,
   <<LetterA, 95, LetterA>>}

\* every valid name with every type, class and txid; every name, valid or
\* too long, with every combination of tweaks; the names at the limits
QueryInputs ==
  [query   : [name : ValidNames, type : {RT_A, RT_CAA}, class : {QC_IN, QC_CH}],
   options : [txid : {Undefined, 65535}, id : {Undefined}, tweaks : {NoTweaks}],
   rnd     : {4660}]
  \cup
  [query   : [name : LongNames, type : {RT_A}, class : {QC_IN}],
   options : [txid : {Undefined}, id : {Undefined}, tweaks : {NoTweaks}],
   rnd     : {4660}]
  \cup
  [query   : [name : {<<LetterA>>, Join(<<LongLabel, <<LetterA>>>>)},
              type : {RT_A}, class : {QC_IN}],
   options : [txid : {Undefined, 65535}, id : {Undefined}, tweaks : TweakChoices],
   rnd     : {4660}]
  \cup
  [query   : [name : LimitNames, type : {RT_A}, class : {QC_IN}],
   options : [txid : {Undefined}, id : {Undefined}, tweaks : {NoTweaks}],
   rnd     : {4660}]

QueryRoundTrip ==
  /\ qpc = "ready"
  /\ LET req == BuildQuery(qin.query, qin.options, qin.rnd)
     IN  qout' = [req      |-> req,
                  header   |-> IF req.ok THEN ReadHeader1(req.val, 0) ELSE Err(""),
                  question |-> IF req.ok THEN ReadQuestion1(req.val, DNS_HEADER_SIZE)
                               ELSE Err("")]
  /\ qpc' = "done"
  /\ UNCHANGED <<qin, flagVars, nameVars, clientVars,
               answerVars, socketVars>>

----------------------------------------------------------------------------
(* Name decoding: readName of either draft on a generated buffer           *)

\* a terminator, label lengths 1 and 2, a label length past any generated
\* buffer, and the first octet of a pointer (whose second octet, drawn from
\* the same set, targets offset 0, 1, 2, 97 or 192)
NameOctets == {0, 1, 2, 97, 192}

NameBuffers == UNION {[1..n -> NameOctets] : n \in 0..MaxBufLen}

\* a name whose one label has the length octet 40 (bits 01) and 64 octets,
\* and one with the length octet 80 (bits 10) and 128 octets
ReservedLabelBuffers ==
  {<<n>> \o [i \in 1..n |-> LetterA] \o <<0>> : n \in {MAX_LABEL_LENGTH + 1, 128}}

\* the depth of recursion at which the engine's call stack is exhausted
MaxDepth == MaxBufLen + 2

Name1Step ==
  /\ draft = 1
  /\ n1.status = "run"
  /\ n1' = IF n1.jumps >= JumpLimit THEN ReadName1Exit(n1) ELSE ReadName1Iter(dbuf, n1)
  /\ dres' = IF n1'.status = "run" THEN dres ELSE ReadName1Result(n1')
  /\ UNCHANGED <<dbuf, draft, n2, flagVars, queryVars, clientVars,
               answerVars, socketVars>>

Name2Enter ==
  /\ draft = 2
  /\ n2.status = "entry"
  /\ Len(n2.stack) <= MaxDepth
  /\ n2' = ReadName2Enter(dbuf, n2)
  /\ UNCHANGED <<dbuf, draft, n1, dres, flagVars, queryVars, clientVars,
               answerVars, socketVars>>

\* the call stack of the engine is exhausted: RangeError
Name2Overflow ==
  /\ draft = 2
  /\ n2.status = "entry"
  /\ Len(n2.stack) > MaxDepth
  /\ n2' = [n2 EXCEPT !.status = "ret"]
  /\ dres' = Err("Maximum call stack size exceeded")
  /\ UNCHANGED <<dbuf, draft, n1, flagVars, queryVars, clientVars,
               answerVars, socketVars>>

Name2Iter ==
  /\ draft = 2
  /\ n2.status = "loop"
  /\ n2' = ReadName2Iter(dbuf, n2)
  /\ UNCHANGED <<dbuf, draft, n1, dres, flagVars, queryVars, clientVars,
               answerVars, socketVars>>

Name2Return ==
  /\ draft = 2
  /\ n2.status = "exit"
  /\ IF n2.stack = <<>>
     THEN /\ n2' = [n2 EXCEPT !.status = "ret"]
          /\ dres' = Ok(Join(n2.labels), n2.offset)
     ELSE /\ n2' = ReadName2Return(n2)
          /\ dres' = dres
  /\ UNCHANGED <<dbuf, draft, n1, flagVars, queryVars, clientVars,
               answerVars, socketVars>>

----------------------------------------------------------------------------
(* Record decoding: readAnswer of draft 1 on a generated resource record   *)

\* the name "a" at offset 0, the target of the pointer C0 00
NamePrefix == <<1, LetterA, 0>>

\* owner names: a pointer to offset 0, and the name "b" written out
OwnerChoices == {<<192, 0>>, <<1, 98, 0>>}

\* a record type of every case of the switch of readRData
AnswerTypes == {RT_A, RT_NS, RT_CNAME, RT_MX, RT_TXT, RT_AAAA, RT_CAA}

\* RDATA 0B 76 3D 73 70 66 31 20 74 65 73 74: the one string "v=spf1 test"
SpfRData == <<11, 118, 61, 115, 112, 102, 49, 32, 116, 101, 115, 116>>

\* the 16 octets of 2001:db8::1
Ipv6RData == <<32, 1, 13, 184, 0, 0, 0, 0, 0, 0, 0, 0, 0, 0, 0, 1>>

\* the octets that follow RDLENGTH: every sequence of up to MaxRData octets
\* over a terminator, a length of 1 and the first octet of a pointer, and
\* the two longer RDATA above
RDataTails ==
  UNION {[1..n -> {0, 1, 192}] : n \in 0..MaxRData} \cup {SpfRData, Ipv6RData}

\* owner, TYPE, CLASS IN, TTL 300, RDLENGTH, and the octets after it
RecordOf(owner, type, rdlength, tail) ==
  owner \o UInt16BE(type) \o UInt16BE(QC_IN) \o <<0, 0, 1, 44>>
    \o UInt16BE(rdlength) \o tail

\* a record after the name "a"; RDLENGTH runs from 0 to one more than the
\* octets present, so that RDATA can end before the buffer does, at its end,
\* or past it
AnswerInputs ==
  {[buf |-> NamePrefix \o RecordOf(owner, type, rdlength, tail),
    offset |-> Len(NamePrefix)] :
     owner \in OwnerChoices, type \in AnswerTypes,
     rdlength \in 0..(MaxRData + 1), tail \in RDataTails}
  \cup
  {[buf |-> NamePrefix \o RecordOf(owner, type, Len(tail), tail),
    offset |-> Len(NamePrefix)] :
     owner \in OwnerChoices, type \in AnswerTypes, tail \in {SpfRData, Ipv6RData}}

ReadAnswerStep ==
  /\ apc = "ready"
  /\ aout' = ReadAnswer1(ain.buf, ain.offset)
  /\ apc' = "done"
  /\ UNCHANGED <<ain, flagVars, queryVars, nameVars, socketVars, clientVars>>

----------------------------------------------------------------------------
(* parseResponse of both drafts on a received message                      *)

\* values of octet 2 (QR, OPCODE, AA, TC, RD) and of octet 3 (RA, Z, AD,
\* CD, RCODE) of a header
FlagOctets2 == {0, 1, 2, 4, 40, 128, 130, 133, 255}
FlagOctets3 == {0, 3, 128, 176}

\* the sections after the header: none, or the question "a" A IN and one A
\* record whose owner is a pointer to the question's name
SectionChoices ==
  {[counts |-> <<0, 0, 0, 0, 0, 0, 0, 0>>, body |-> <<>>],
   [counts |-> <<0, 1, 0, 1, 0, 0, 0, 0>>,
    body |-> <<1, LetterA, 0, 0, 1, 0, 1>>
             \o <<192, DNS_HEADER_SIZE, 0, 1, 0, 1, 0, 0, 1, 44, 0, 4, 1, 2, 3, 4>>]}

ResponseInputs ==
  {[buf |-> <<18, 52, o2, o3>> \o s.counts \o s.body, offset |-> 0] :
     o2 \in FlagOctets2, o3 \in FlagOctets3, s \in SectionChoices}

ParseResponseStep ==
  /\ apc = "ready"
  /\ aout' = [draft1 |-> ParseResponse1(ain.buf),
              draft2 |-> ParseResponse2Header(ain.buf)]
  /\ apc' = "parsed"
  /\ UNCHANGED <<ain, flagVars, queryVars, nameVars, socketVars, clientVars>>

----------------------------------------------------------------------------
(* The UDP, TCP and TLS transports (src/unnamed/part_000): one call of     *)
(* query(), one step per callback or event handler that runs.  tq is the   *)
(* closure of the call: the socket, the timer, the accumulated data, and   *)
(* the promise returned.                                                   *)

\* resolve(value) and reject(err): only the first call settles a promise
Resolve(q, value) ==
  IF q.promise.state # "pending" THEN q
  ELSE [q EXCEPT !.promise = [state |-> "resolved", value |-> value, err |-> ""]]

Reject(q, err) ==
  IF q.promise.state # "pending" THEN q
  ELSE [q EXCEPT !.promise = [state |-> "rejected", value |-> <<>>, err |-> err]]

\* clearTimeout(timeoutId): a timer that has not fired never will
ClearTimeout(q) == IF q.timer = "armed" THEN [q EXCEPT !.timer = "cleared"] ELSE q

\* Destroy that leaves the socket as it is
DestroyNothing(q) == q

\* socket.destroy() and client.close(); destroys counts the calls
Destroy(q) == [q EXCEPT !.socket = "closed", !.destroys = @ + 1]

\* the length prefix and the message written to a TCP or TLS socket
Framed(message) == UInt16BE(Len(message)) \o message

\* Deliver that keeps the length prefix
DeliverWithPrefix(data, expectedLength) == Slice(data, 0, expectedLength)

\* Buffer.from(data.slice(2, expectedLength))
Deliver(data, expectedLength) == Slice(data, 2, expectedLength)

\* new Error('UDP query timed out') and its TCP and TLS counterparts
TimedOut(kind) ==
  CASE kind = "udp" -> "UDP query timed out"
    [] kind = "tcp" -> "TCP query timed out"
    [] kind = "tls" -> "TLS query timed out"

\* the state of the closure when the executor of the promise has run: the
\* handlers are registered and the timer is armed; UDP has called send, TCP
\* and TLS are connecting
QueryStarted(i) ==
  [socket |-> IF i.kind = "udp" THEN "open" ELSE "connecting",
   timer |-> "armed",
   write |-> IF i.kind = "udp" THEN "pending" ELSE "none",
   wire |-> IF i.kind = "udp" THEN i.request ELSE <<>>,
   data |-> <<>>, expectedLength |-> -1, rest |-> i.stream, firstChunk |-> 0, destroys |-> 0,
   promise |-> [state |-> "pending", value |-> <<>>, err |-> ""]]

\* the callback of socket.connect: the framed request is written
TcpConnected ==
  /\ tin.kind = "tcp"
  /\ tq.socket = "connecting"
  /\ tq' = [tq EXCEPT !.socket = "connected", !.wire = Framed(tin.request),
                      !.write = "pending"]
  /\ UNCHANGED <<tin, flagVars, queryVars, nameVars, answerVars, clientVars>>

\* the callback of tls.connect: an unauthorized socket is destroyed and the
\* promise rejected, otherwise the framed request is written
TlsConnected ==
  /\ tin.kind = "tls"
  /\ tq.socket = "connecting"
  /\ tq' = IF ~tin.authorized
           THEN Reject(Destroy(tq), "TLS authorization failed")
           ELSE [tq EXCEPT !.socket = "connected", !.wire = Framed(tin.request),
                           !.write = "pending"]
  /\ UNCHANGED <<tin, flagVars, queryVars, nameVars, answerVars, clientVars>>

\* the callback of socket.write and of client.send, with or without an error
WriteCallback ==
  /\ tq.write = "pending"
  /\ \E err \in {"", "EPIPE"} :
       tq' = IF err = "" THEN [tq EXCEPT !.write = "done"]
             ELSE Reject(Destroy(ClearTimeout([tq EXCEPT !.write = "done"])), err)
  /\ UNCHANGED <<tin, flagVars, queryVars, nameVars, answerVars, clientVars>>

\* the 'error' handler of the socket
SocketError ==
  /\ tq.socket \in {"open", "connecting", "connected"}
  /\ \E err \in {"ECONNRESET"} : tq' = Reject(Destroy(ClearTimeout(tq)), err)
  /\ UNCHANGED <<tin, flagVars, queryVars, nameVars, answerVars, clientVars>>

\* the sizes a 'data' chunk of the stream not yet delivered can have
ChunkSizes(rest) == {n \in (1..MaxChunk) \cup {Len(rest)} : 1 <= n /\ n <= Len(rest)}

\* the 'data' handler of the TCP and TLS sockets, for a chunk of n octets
OnData(q, n) ==
  LET data == q.data \o SubSeq(q.rest, 1, n)
      expectedLength ==
        IF q.expectedLength = -1 /\ Len(data) >= 2
        THEN ReadUInt16BE(data, 0) + 2
        ELSE q.expectedLength
      received == [q EXCEPT !.data = data, !.expectedLength = expectedLength,
                            !.rest = SubSeq(q.rest, n + 1, Len(q.rest)),
                            !.firstChunk = IF q.firstChunk = 0 THEN n ELSE q.firstChunk]
  IN  IF expectedLength # -1 /\ Len(data) >= expectedLength
      THEN Resolve(Destroy(ClearTimeout(received)), Deliver(data, expectedLength))
      ELSE received

SocketData ==
  /\ tin.kind \in {"tcp", "tls"}
  /\ tq.socket = "connected"
  /\ \E n \in ChunkSizes(tq.rest) : tq' = OnData(tq, n)
  /\ UNCHANGED <<tin, flagVars, queryVars, nameVars, answerVars, clientVars>>

\* the peer closes the connection when all it sends has been delivered.  No
\* handler of 'end' or 'close' is registered: the socket ends, the closure
\* and the timer stay as they are
SocketEnd ==
  /\ tin.kind \in {"tcp", "tls"}
  /\ tq.socket = "connected"
  /\ tq.rest = <<>>
  /\ tq' = [tq EXCEPT !.socket = "ended"]
  /\ UNCHANGED <<tin, flagVars, queryVars, nameVars, answerVars, clientVars>>

\* the 'message' handler of the UDP socket
UdpMessage ==
  /\ tin.kind = "udp"
  /\ tq.socket = "open"
  /\ tq' = Resolve(Destroy(ClearTimeout([tq EXCEPT !.rest = <<>>])), tin.stream)
  /\ UNCHANGED <<tin, flagVars, queryVars, nameVars, answerVars, clientVars>>

\* Timeout that destroys the socket and leaves the promise as it is
TimeoutWithoutReject ==
  /\ tq.timer = "armed"
  /\ tq' = Destroy([tq EXCEPT !.timer = "fired"])
  /\ UNCHANGED <<tin, flagVars, queryVars, nameVars, answerVars, clientVars>>

\* the callback of setTimeout
Timeout ==
  /\ tq.timer = "armed"
  /\ tq' = Reject(Destroy([tq EXCEPT !.timer = "fired"]), TimedOut(tin.kind))
  /\ UNCHANGED <<tin, flagVars, queryVars, nameVars, answerVars, clientVars>>

\* messages of up to MaxMsgLen octets, and one of 256 octets, whose length
\* has a non-zero high octet
Messages ==
  UNION {[1..n -> {0, 7}] : n \in 0..MaxMsgLen} \cup {[i \in 1..256 |-> i % 251]}

\* what the peer sends: a framed message, alone or followed by more octets,
\* or a stream that ends inside the prefix or inside the message
Streams ==
  {Framed(m) \o e : m \in Messages, e \in {<<>>, <<9>>, <<0, 1, 9>>}}
  \cup {<<>>, <<0>>, <<0, 2, 7>>}

TransportInputs ==
  [kind : {"tcp"}, request : {<<1, 2, 3>>}, stream : Streams, authorized : {TRUE}]
  \cup
  [kind : {"tls"}, request : {<<1, 2, 3>>}, stream : Streams, authorized : BOOLEAN]
  \cup
  [kind : {"udp"}, request : {<<1, 2, 3>>}, stream : Messages, authorized : {TRUE}]

----------------------------------------------------------------------------
(* The HTTPS transport (src/unnamed/part_000:238-308): one call of query(),*)
(* one step per callback or event handler that runs.  tin holds the reply  *)
(* the server gives, tq the request, the response and the promise.         *)

CONTENT_TYPE == "application/dns-message"

HttpOk == 200

\* new Error(`HTTPS query failed with status ${res.statusCode}`)
StatusError(status) ==
  [msg |-> "HTTPS query failed with status", status |-> status, contentType |-> ""]

\* new Error(`Invalid content type: ${contentType}`)
ContentTypeError(contentType) ==
  [msg |-> "Invalid content type", status |-> 0, contentType |-> contentType]

\* an error that carries a message only
PlainError(msg) == [msg |-> msg, status |-> 0, contentType |-> ""]

\* the chunks pushed so far, combined into one buffer
RECURSIVE Combined(_)
Combined(chunks) ==
  IF chunks = <<>> THEN <<>> ELSE chunks[1] \o Combined(Tail(chunks))

\* the 'end' handler with the check of the content type left out
OnEndStatusOnly(q, status, contentType) ==
  IF status # HttpOk THEN Reject(q, StatusError(status))
  ELSE Resolve(q, Combined(q.chunks))

\* the 'end' handler of the response
OnEnd(q, status, contentType) ==
  IF status # HttpOk THEN Reject(q, StatusError(status))
  ELSE IF contentType # CONTENT_TYPE THEN Reject(q, ContentTypeError(contentType))
  ELSE Resolve(q, Combined(q.chunks))

\* the state of the closure when the executor of the promise has run: the
\* request is written and ended, its handlers are registered
HttpsStarted(i) ==
  [req |-> "sent", res |-> "none", chunks |-> <<>>, rest |-> i.body,
   promise |-> [state |-> "pending", value |-> <<>>, err |-> PlainError("")]]

\* the callback of https.request: the response has arrived, its handlers
\* are registered
HttpsResponse ==
  /\ tin.kind = "https"
  /\ tq.req = "sent" /\ tq.res = "none"
  /\ tq' = [tq EXCEPT !.res = "open"]
  /\ UNCHANGED <<tin, flagVars, queryVars, nameVars, answerVars, clientVars>>

\* the 'data' handler of the response, for a chunk of n octets
HttpsData ==
  /\ tin.kind = "https"
  /\ tq.req = "sent" /\ tq.res = "open"
  /\ \E n \in ChunkSizes(tq.rest) :
       tq' = [tq EXCEPT !.chunks = Append(tq.chunks, SubSeq(tq.rest, 1, n)),
                        !.rest = SubSeq(tq.rest, n + 1, Len(tq.rest))]
  /\ UNCHANGED <<tin, flagVars, queryVars, nameVars, answerVars, clientVars>>

\* the 'end' handler of the response, once the whole body is delivered
HttpsEnd ==
  /\ tin.kind = "https"
  /\ tq.req = "sent" /\ tq.res = "open" /\ tq.rest = <<>>
  /\ tq' = OnEnd([tq EXCEPT !.res = "ended"], tin.status, tin.contentType)
  /\ UNCHANGED <<tin, flagVars, queryVars, nameVars, answerVars, clientVars>>

\* req.on('error', reject)
HttpsError ==
  /\ tin.kind = "https"
  /\ tq.req = "sent" /\ tq.res # "ended"
  /\ tq' = Reject([tq EXCEPT !.req = "failed"], PlainError("ECONNRESET"))
  /\ UNCHANGED <<tin, flagVars, queryVars, nameVars, answerVars, clientVars>>

\* the 'timeout' handler of the request
HttpsTimeout ==
  /\ tin.kind = "https"
  /\ tq.req = "sent" /\ tq.res # "ended"
  /\ tq' = Reject([tq EXCEPT !.req = "destroyed"], PlainError("HTTPS query timed out"))
  /\ UNCHANGED <<tin, flagVars, queryVars, nameVars, answerVars, clientVars>>

\* the status codes and Content-Type headers of the replies; "undefined"
\* is a reply without the header
StatusCodes == {HttpOk, HttpOk + 4, HttpOk * 2 + 4, HttpOk * 2 + 100}

ContentTypes ==
  {CONTENT_TYPE, "text/html", "application/dns-message; charset=utf-8", "undefined"}

\* the bodies of the replies: the messages of up to MaxMsgLen octets
Bodies == {m \in Messages : Len(m) <= MaxMsgLen}

HttpsInputs ==
  [kind : {"https"}, request : {<<1, 2, 3>>}, body : Bodies,
   status : StatusCodes, contentType : ContentTypes]

----------------------------------------------------------------------------
(* DnsClient: options and their validation (src/src/client.ts)             *)

\* an option that holds a list of numbers and was not given
AbsentList == <<Undefined>>

\* a list of strings that is not there
AbsentNames == <<<<Undefined>>>>

RecordTypeValues == {1, 2, 5, 6, 12, 15, 16, 28, 33, 35, 41, 44, 48, 52, 257}

HttpsPrefix == <<104, 116, 116, 112, 115, 58, 47, 47>>

StartsWith(str, prefix) ==
  Len(str) >= Len(prefix) /\ SubSeq(str, 1, Len(prefix)) = prefix

Includes(str, ch) == \E i \in 1..Len(str) : str[i] = ch

IsDigit(c) == c >= 48 /\ c <= 57

\* /^[a-z0-9-]+$/i
IsLabelChar(c) ==
  \/ (c >= 97 /\ c <= 122) \/ (c >= 65 /\ c <= 90) \/ IsDigit(c) \/ c = 45

\* validateDomainName without the check of the length of the name
ValidateDomainNameAnyLength(domain) ==
  IF \E i \in 1..(Len(domain) - 1) : domain[i] = DOT /\ domain[i + 1] = DOT
  THEN "Invalid domain name (consecutive dots)"
  ELSE IF Len(domain) > 0 /\ (domain[1] = DOT \/ domain[Len(domain)] = DOT)
  THEN "Invalid domain name (starts or ends with dot)"
  ELSE LET labels == Split(domain)
       IN  IF \E i \in 1..Len(labels) : Len(labels[i]) > 63
           THEN "Label too long in domain"
           ELSE IF \E i \in 1..Len(labels) :
                     \/ labels[i] = <<>>
                     \/ \E j \in 1..Len(labels[i]) : ~IsLabelChar(labels[i][j])
           THEN "Invalid characters in domain label"
           ELSE ""

\* DnsClient.validateDomainName: the error thrown, "" when none
ValidateDomainName(domain) ==
  IF \E i \in 1..(Len(domain) - 1) : domain[i] = DOT /\ domain[i + 1] = DOT
  THEN "Invalid domain name (consecutive dots)"
  ELSE IF Len(domain) > 0 /\ (domain[1] = DOT \/ domain[Len(domain)] = DOT)
  THEN "Invalid domain name (starts or ends with dot)"
  ELSE IF Len(domain) > 253 THEN "Domain name too long"
  ELSE LET labels == Split(domain)
       IN  IF \E i \in 1..Len(labels) : Len(labels[i]) > 63
           THEN "Label too long in domain"
           ELSE IF \E i \in 1..Len(labels) :
                     \/ labels[i] = <<>>
                     \/ \E j \in 1..Len(labels[i]) : ~IsLabelChar(labels[i][j])
           THEN "Invalid characters in domain label"
           ELSE ""

\* DnsClient.validateRecordType, for numeric types
ValidateRecordType(type) ==
  IF type \in RecordTypeValues THEN "" ELSE "Invalid record type number"

\* a count of the transport flags that leaves options.https out
TransportCountWithoutHttps(o) ==
  Cardinality({f \in {"udp", "tcp", "tls"} : o[f]})

\* [udp, tcp, tls, https].filter(Boolean).length
TransportCount(o) ==
  Cardinality({f \in {"udp", "tcp", "tls", "https"} : o[f]})

\* DnsClient.validateOptions: the error thrown, "" when none
ValidateOptions(o) ==
  LET transportCount == TransportCount(o)
  IN  IF o.domains # AbsentNames
         /\ \E i \in 1..Len(o.domains) : ValidateDomainName(o.domains[i]) # ""
      THEN "Invalid domain"
      ELSE IF o.type # AbsentList /\ o.type # <<>>
              /\ \E i \in 1..Len(o.type) : ValidateRecordType(o.type[i]) # ""
      THEN "Invalid record type"
      ELSE IF transportCount > 1 THEN "Only one transport type can be specified"
      ELSE IF o.https /\ ~StartsWith(o.nameserver, HttpsPrefix)
      THEN "HTTPS transport requires an HTTPS nameserver URL"
      ELSE ""

\* options.transport as the caller gives it: left out, a TransportConfig
\* object (type "" when the object has no type), or a TransportType string
AbsentTransport == [kind |-> "absent", type |-> ""]

TransportConfig(type) == [kind |-> "object", type |-> type]

TransportString(type) == [kind |-> "string", type |-> type]

\* the constructor's merge { transport: { type: 'udp' }, ...options }
WithDefaults(o) ==
  IF o.transport = AbsentTransport
  THEN [o EXCEPT !.transport = TransportConfig("udp")]
  ELSE o

\* a selection that looks at the four flags only
DetermineTransportTypeFlagsOnly(o) ==
  IF o.https THEN "https"
  ELSE IF o.tls THEN "tls"
  ELSE IF o.tcp THEN "tcp"
  ELSE "udp"

\* DnsClient.determineTransportType
DetermineTransportType(o) ==
  IF o.https THEN "https"
  ELSE IF o.tls THEN "tls"
  ELSE IF o.tcp THEN "tcp"
  ELSE IF o.udp THEN "udp"
  ELSE IF o.transport.kind = "object"
  THEN (IF o.transport.type = "" THEN "udp" ELSE o.transport.type)
  ELSE "udp"

\* parseInt(part, 10) of a string of digits
RECURSIVE ParseInt(_)
ParseInt(digits) ==
  IF digits = <<>> THEN 0
  ELSE ParseInt(SubSeq(digits, 1, Len(digits) - 1)) * 10 + (digits[Len(digits)] - 48)

\* DnsClient.validateNameserver
ValidateNameserver(ns) ==
  IF StartsWith(ns, HttpsPrefix) THEN TRUE
  ELSE IF Includes(ns, 37) THEN FALSE
  ELSE LET parts == Split(ns)
       IN  /\ Len(parts) = 4
           /\ \A i \in 1..4 :
                /\ Len(parts[i]) \in 1..3
                /\ \A j \in 1..Len(parts[i]) : IsDigit(parts[i][j])
                /\ ParseInt(parts[i]) <= 255

DEFAULT_NAMESERVER == <<49, 46, 49, 46, 49, 46, 49>>

\* DnsClient.resolveUnixNameserver; entries are the second fields of the
\* nameserver lines of /etc/resolv.conf, AbsentNames a failed read
ResolveUnixNameserver(entries) ==
  IF entries = AbsentNames THEN DEFAULT_NAMESERVER
  ELSE LET kept == SelectSeq(entries, LAMBDA e : e # <<>> /\ ~Includes(e, 37))
           ipv4 == SelectSeq(kept, LAMBDA e : ~Includes(e, 58))
       IN  IF ipv4 # <<>> THEN ipv4[1] ELSE DEFAULT_NAMESERVER

\* DnsClient.resolveNameserver
ResolveNameserverOf(o, platform, entries) ==
  IF o.nameserver # <<>> /\ ValidateNameserver(o.nameserver) THEN o.nameserver
  ELSE LET ns == IF platform = "win32" THEN DEFAULT_NAMESERVER
                 ELSE ResolveUnixNameserver(entries)
       IN  IF ValidateNameserver(ns) THEN ns ELSE DEFAULT_NAMESERVER

\* the reads of /etc/resolv.conf one call of DnsClient.resolveNameserver
\* makes: fs.readFile in resolveUnixNameserver, reached when the configured
\* nameserver is missing or fails validateNameserver and the platform is not
\* win32
ReadsResolvConf(o, platform) ==
  IF o.nameserver # <<>> /\ ValidateNameserver(o.nameserver) THEN 0
  ELSE IF platform = "win32" THEN 0
  ELSE 1

\* DnsClient.resolveTypes / resolveClasses
ResolveTypes(o) == IF o.type = AbsentList THEN <<RT_A>> ELSE o.type

ResolveClasses(o) == IF o.class = AbsentList THEN <<QC_IN>> ELSE o.class

\* the three nested loops of DnsClient.buildQueries
RECURSIVE ForClasses(_, _, _, _)
ForClasses(domain, type, classes, k) ==
  IF k > Len(classes) THEN <<>>
  ELSE <<[name |-> domain, type |-> type, class |-> classes[k]]>>
         \o ForClasses(domain, type, classes, k + 1)

RECURSIVE ForTypes(_, _, _, _)
ForTypes(domain, types, classes, j) ==
  IF j > Len(types) THEN <<>>
  ELSE ForClasses(domain, types[j], classes, 1)
         \o ForTypes(domain, types, classes, j + 1)

RECURSIVE ForDomains(_, _, _, _)
ForDomains(domains, types, classes, i) ==
  IF i > Len(domains) THEN <<>>
  ELSE ForTypes(domains[i], types, classes, 1)
         \o ForDomains(domains, types, classes, i + 1)

\* DnsClient.buildQueries
BuildQueries(o) ==
  IF o.domains = AbsentNames \/ o.domains = <<>> THEN Err("No domains specified")
  ELSE Ok(ForDomains(o.domains, ResolveTypes(o), ResolveClasses(o), 1), 0)

\* maxRetries with a loop that runs once more (attempt <= maxRetries)
maxRetriesOffByOne(o) ==
  (IF o.retries = Undefined \/ o.retries = 0 THEN DefaultRetries ELSE o.retries) + 1

\* const maxRetries = this.options.retries || 3
maxRetries(o) ==
  IF o.retries = Undefined \/ o.retries = 0 THEN DefaultRetries ELSE o.retries

\* throw new Error(`DNS query failed: ${errorMessage}`)
QueryFailed(msg) == <<"DNS query failed: ", msg>>

----------------------------------------------------------------------------
(* The network: what a transport call can resolve with or reject with      *)

Header(id, f0, f1, qdcount, ancount) ==
  UInt16BE(id) \o <<f0, f1>> \o UInt16BE(qdcount) \o UInt16BE(ancount)
    \o <<0, 0, 0, 0>>

\* owner = pointer to offset 12, type A, class IN, ttl 300, 93.184.216.34
AnswerA == <<192, 12, 0, 1, 0, 1, 0, 0, 1, 44, 0, 4, 93, 184, 216, 34>>

ReplyKinds == {"ok", "nx", "tc", "otherid", "query", "short", "cut"}

ReplyOf(kind, req) ==
  LET id   == ReadUInt16BE(req, 0)
      qsec == Slice(req, DNS_HEADER_SIZE, Len(req))
  IN  CASE kind = "ok"      -> Header(id, 129, 128, 1, 1) \o qsec \o AnswerA
        [] kind = "nx"      -> Header(id, 129, 131, 1, 0) \o qsec
        [] kind = "tc"      -> Header(id, 131, 128, 1, 0) \o qsec
        [] kind = "otherid" -> Header((id + 1) % 65536, 129, 128, 1, 1) \o qsec \o AnswerA
        [] kind = "query"   -> req
        [] kind = "short"   -> Slice(req, 0, 6)
        [] kind = "cut"     -> Header(id, 129, 128, 1, 1) \o qsec

TransportErrors == {"query timed out", "ECONNREFUSED"}

RandomIds == {4660, 65535}

----------------------------------------------------------------------------
(* DnsClient.query (src/src/client.ts:78-201)                              *)

transportType == DetermineTransportType(opts)

NoCall ==
  [kind |-> "none", fallback |-> FALSE, ns |-> <<>>, req |-> <<>>, deadline |-> 0]

\* the delay the transport made by createTransport(kind) arms its timer
\* with: the static TIMEOUT of its class
TimeoutOf(kind) == TIMEOUT

\* Call that encodes the request anew for the TCP fallback, with the next
\* transaction id
CallEncodedAnew(kind, fallback) ==
  [kind |-> kind, fallback |-> fallback, ns |-> nameserver,
   req |-> IF fallback
           THEN UInt16BE((ReadUInt16BE(request, 0) + 1) % 65536)
                \o SubSeq(request, 3, Len(request))
           ELSE request,
   deadline |-> TimeoutOf(kind)]

\* transport.query(nameserver, request) and tcpTransport.query(nameserver,
\* request): the call, with the request built before the retry loop
Call(kind, fallback) ==
  [kind |-> kind, fallback |-> fallback, ns |-> nameserver, req |-> request,
   deadline |-> TimeoutOf(kind)]

\* an entry of the observation log, which holds the transport calls of the
\* current attempt: the call, the attempt that made it, and how it settled
Logged(call) ==
  [kind |-> call.kind, fallback |-> call.fallback, ns |-> call.ns,
   req |-> call.req, attempt |-> attempt, settled |-> "pending", reply |-> <<>>,
   err |-> ""]

Settle(log, how, reply, err) ==
  [log EXCEPT ![Len(log)].settled = how, ![Len(log)].reply = reply,
              ![Len(log)].err = err]

\* new DnsClient(options): the merge with the defaults, then validateOptions
Construct ==
  /\ pc = "new"
  /\ opts' = WithDefaults(opts)
  /\ IF ValidateOptions(opts') = ""
     THEN pc' = "start" /\ error' = error
     ELSE pc' = "rejected" /\ error' = <<ValidateOptions(opts')>>
  /\ UNCHANGED <<nameserver, queries, qi, request, attempt, inflight, responses,
                 lastError, backoffTime, net, calls, nCalls, nFallbacks, waits,
                 accepted, anyOk, reads>>
  /\ UNCHANGED <<flagVars, queryVars, nameVars, answerVars, socketVars>>

\* const nameserver = await this.resolveNameserver()
ResolveNameserver ==
  /\ pc = "start"
  /\ \E platform \in {"linux", "win32"}, entries \in {AbsentNames, <<<<56, 46, 56, 46, 56, 46, 56>>>>} :
       /\ nameserver' = ResolveNameserverOf(opts, platform, entries)
       /\ reads' = reads + ReadsResolvConf(opts, platform)
  /\ pc' = "build"
  /\ UNCHANGED <<opts, queries, qi, request, attempt, inflight, responses,
                 lastError, error, backoffTime, net, calls, nCalls, nFallbacks,
                 waits, accepted, anyOk>>
  /\ UNCHANGED <<flagVars, queryVars, nameVars, answerVars, socketVars>>

\* const queries = this.buildQueries(), the outer catch when it throws
BuildQueriesStep ==
  /\ pc = "build"
  /\ LET qs == BuildQueries(opts)
     IN  IF qs.ok
         THEN /\ queries' = qs.val
              /\ accepted' = [n \in 1..Len(qs.val) |-> <<>>]
              /\ qi' = 1
              /\ pc' = "next"
              /\ error' = error
         ELSE /\ pc' = "failed"
              /\ error' = QueryFailed(qs.err)
              /\ UNCHANGED <<queries, accepted, qi>>
  /\ UNCHANGED <<opts, nameserver, request, attempt, inflight, responses,
                 lastError, backoffTime, net, calls, nCalls, nFallbacks, waits, anyOk, reads>>
  /\ UNCHANGED <<flagVars, queryVars, nameVars, answerVars, socketVars>>

\* the head of for (const query of queries): the next request is built, or
\* the loop is over and query() returns or throws 'No responses received'
NextQuery ==
  /\ pc = "next"
  /\ IF qi > Len(queries)
     THEN /\ IF responses = <<>>
             THEN pc' = "failed" /\ error' = QueryFailed("No responses received")
             ELSE pc' = "returned" /\ error' = error
          /\ UNCHANGED <<request, attempt, lastError, calls, nCalls, nFallbacks, waits>>
     ELSE \E rnd \in RandomIds :
            LET req == BuildQuery(queries[qi],
                                 [txid |-> opts.txid, id |-> Undefined,
                                  tweaks |-> opts.tweaks], rnd)
            IN  IF req.ok
                THEN /\ request' = req.val
                     /\ attempt' = 0
                     /\ lastError' = ""
                     /\ calls' = <<>>
                     /\ nCalls' = 0
                     /\ nFallbacks' = 0
                     /\ waits' = <<>>
                     /\ pc' = "attempt"
                     /\ error' = error
                ELSE /\ pc' = "failed"
                     /\ error' = QueryFailed(req.err)
                     /\ UNCHANGED <<request, attempt, lastError, calls, nCalls,
                                    nFallbacks, waits>>
  /\ UNCHANGED <<opts, nameserver, queries, qi, inflight, responses,
                 backoffTime, net, accepted, anyOk, reads>>
  /\ UNCHANGED <<flagVars, queryVars, nameVars, answerVars, socketVars>>

\* the head of for (let attempt = 0; attempt < maxRetries; attempt++) when
\* its condition is false: the loop is left and the next query is taken up
RetryLoopExit ==
  /\ pc = "attempt"
  /\ ~(attempt < maxRetries(opts))
  /\ qi' = qi + 1
  /\ pc' = "next"
  /\ UNCHANGED <<opts, nameserver, queries, request, attempt, inflight, responses,
                 lastError, error, backoffTime, net, calls, nCalls, nFallbacks,
                 waits, accepted, anyOk, reads>>
  /\ UNCHANGED <<flagVars, queryVars, nameVars, answerVars, socketVars>>

\* await transport.query(nameserver, request), the call
TransportCall ==
  /\ pc = "attempt"
  /\ attempt < maxRetries(opts)
  /\ inflight' = Call(transportType, FALSE)
  /\ calls' = <<Logged(inflight')>>
  /\ nCalls' = nCalls + 1
  /\ pc' = "awaitPrimary"
  /\ UNCHANGED <<opts, nameserver, queries, qi, request, attempt, responses,
                 lastError, error, backoffTime, net, nFallbacks, waits, accepted,
                 anyOk, reads>>
  /\ UNCHANGED <<flagVars, queryVars, nameVars, answerVars, socketVars>>

\* Backoff counting attempts from 1: 2 ** (attempt + 1) * 1000
BackoffFromSecondPower(n) == Pow2(n + 1) * BackoffUnit

\* const backoffTime = 2 ** attempt * 1000
Backoff(n) == Pow2(n) * BackoffUnit

\* the catch block of the retry loop
Fail(err) ==
  /\ lastError' = err
  /\ IF attempt = maxRetries(opts) - 1
     THEN pc' = "failed" /\ error' = QueryFailed(err) /\ backoffTime' = backoffTime
     ELSE pc' = "backoff" /\ backoffTime' = Backoff(attempt) /\ error' = error
  /\ UNCHANGED <<responses, accepted, qi>>

\* NeedsTcp without the truncation check: the UDP response is always used
NeedsTcpNever(type, parsed) == FALSE

\* if (transportType === TransportType.UDP && parsed.flags.truncated)
NeedsTcp(type, parsed) == type = "udp" /\ parsed.flags.truncated

\* Push with unshift in place of push
PushFront(resp) ==
  /\ responses' = <<resp>> \o responses
  /\ accepted' = [accepted EXCEPT ![qi] = <<resp>>]
  /\ qi' = qi + 1
  /\ pc' = "next"
  /\ UNCHANGED <<lastError, error, backoffTime>>

\* responses.push(..); break
Push(resp) ==
  /\ responses' = Append(responses, resp)
  /\ accepted' = [accepted EXCEPT ![qi] = <<resp>>]
  /\ qi' = qi + 1
  /\ pc' = "next"
  /\ UNCHANGED <<lastError, error, backoffTime>>

\* a parsed response with a non-zero RCODE turned into an error
RcodeIsError(parsed) ==
  IF parsed.ok /\ parsed.val.flags.responseCode # 0
  THEN Err("Server returned an error")
  ELSE parsed

\* Received with a check of the RCODE after parseResponse
ReceivedRcodeChecked(response) ==
  IF Len(response) < 4 THEN Err("RangeError")
  ELSE IF Len(response) < 12 THEN Err("Response too short")
  ELSE IF BitAnd(ReadUInt16BE(response, 2), 32768) = 0
  THEN Err("Response flag not set in DNS message")
  ELSE RcodeIsError(ParseResponse1(response))

\* the checks made on the octets a transport call resolved with, up to and
\* including parseResponse: the parsed response, or the error thrown
Received(response) ==
  IF Len(response) < 4 THEN Err("RangeError")
  ELSE IF Len(response) < 12 THEN Err("Response too short")
  ELSE IF BitAnd(ReadUInt16BE(response, 2), 32768) = 0
  THEN Err("Response flag not set in DNS message")
  ELSE ParseResponse1(response)

\* the selected transport resolves with a reply
TransportResolve ==
  /\ pc = "awaitPrimary"
  /\ \E kind \in net.replies :
       LET response == ReplyOf(kind, inflight.req)
           parsed   == Received(response)
       IN  IF ~parsed.ok
           THEN /\ Fail(parsed.err)
                /\ inflight' = NoCall
                /\ calls' = Settle(calls, "resolved", response, "")
                /\ UNCHANGED <<nCalls, nFallbacks>>
           ELSE IF NeedsTcp(transportType, parsed.val)
           THEN /\ inflight' = Call("tcp", TRUE)
                /\ calls' = Append(Settle(calls, "resolved", response, ""), Logged(inflight'))
                /\ nCalls' = nCalls + 1
                /\ nFallbacks' = nFallbacks + 1
                /\ pc' = "awaitTcp"
                /\ UNCHANGED <<responses, accepted, qi, lastError, error, backoffTime>>
           ELSE /\ Push(parsed.val)
                /\ inflight' = NoCall
                /\ calls' = Settle(calls, "resolved", response, "")
                /\ UNCHANGED <<nCalls, nFallbacks>>
  /\ anyOk' = TRUE
  /\ UNCHANGED reads
  /\ UNCHANGED <<opts, nameserver, queries, request, attempt, net, waits>>
  /\ UNCHANGED <<flagVars, queryVars, nameVars, answerVars, socketVars>>

\* the selected transport rejects
TransportReject ==
  /\ pc = "awaitPrimary"
  /\ \E err \in net.errors :
       /\ Fail(err)
       /\ inflight' = NoCall
       /\ calls' = Settle(calls, "rejected", <<>>, err)
  /\ UNCHANGED <<opts, nameserver, queries, request, attempt, net, nCalls,
                 nFallbacks, waits, anyOk, reads>>
  /\ UNCHANGED <<flagVars, queryVars, nameVars, answerVars, socketVars>>

\* the TCP transport of the truncation fallback resolves
TcpResolve ==
  /\ pc = "awaitTcp"
  /\ \E kind \in net.replies :
       LET tcpResponse == ReplyOf(kind, inflight.req)
           parsed      == ParseResponse1(tcpResponse)
       IN  /\ IF parsed.ok THEN Push(parsed.val) ELSE Fail(parsed.err)
           /\ calls' = Settle(calls, "resolved", tcpResponse, "")
  /\ inflight' = NoCall
  /\ anyOk' = TRUE
  /\ UNCHANGED reads
  /\ UNCHANGED <<opts, nameserver, queries, request, attempt, net, nCalls,
                 nFallbacks, waits>>
  /\ UNCHANGED <<flagVars, queryVars, nameVars, answerVars, socketVars>>

\* the TCP transport of the truncation fallback rejects
TcpReject ==
  /\ pc = "awaitTcp"
  /\ \E err \in net.errors :
       /\ Fail(err)
       /\ calls' = Settle(calls, "rejected", <<>>, err)
  /\ inflight' = NoCall
  /\ UNCHANGED <<opts, nameserver, queries, request, attempt, net, nCalls,
                 nFallbacks, waits, anyOk, reads>>
  /\ UNCHANGED <<flagVars, queryVars, nameVars, answerVars, socketVars>>

\* await new Promise(resolve => setTimeout(resolve, backoffTime)); attempt++
BackoffElapsed ==
  /\ pc = "backoff"
  /\ waits' = Append(waits, backoffTime)
  /\ attempt' = attempt + 1
  /\ pc' = "attempt"
  /\ UNCHANGED <<opts, nameserver, queries, qi, request, inflight, responses,
                 lastError, error, backoffTime, net, calls, nCalls, nFallbacks,
                 accepted, anyOk, reads>>
  /\ UNCHANGED <<flagVars, queryVars, nameVars, answerVars, socketVars>>

----------------------------------------------------------------------------
(* Clients and networks the orchestrator is run with                       *)

\* "a.a", "a.b", ...
Domain(i) == <<LetterA, DOT, 96 + i>>

DomainLists == {[i \in 1..n |-> Domain(i)] : n \in 0..MaxDomains}

NoFlags == [udp |-> FALSE, tcp |-> FALSE, tls |-> FALSE, https |-> FALSE]

\* "9.9.9.9" and "https://d"
Ns9     == <<57, 46, 57, 46, 57, 46, 57>>
HttpsNs == HttpsPrefix \o <<100>>

\* options.timeout of a client that sets it, in ms
ShortTimeout == 100

\* the transport flags and the nameserver, txid and timeout options they
\* come with
TransportChoices ==
  { [flags |-> NoFlags, nameserver |-> <<>>, txid |-> Undefined,
     transport |-> AbsentTransport, timeout |-> Undefined],
    [flags |-> [NoFlags EXCEPT !.udp = TRUE], nameserver |-> Ns9, txid |-> 7,
     transport |-> AbsentTransport, timeout |-> ShortTimeout],
    [flags |-> [NoFlags EXCEPT !.tcp = TRUE], nameserver |-> Ns9, txid |-> Undefined,
     transport |-> AbsentTransport, timeout |-> Undefined],
    [flags |-> [NoFlags EXCEPT !.tls = TRUE], nameserver |-> Ns9, txid |-> 7,
     transport |-> AbsentTransport, timeout |-> Undefined],
    [flags |-> [NoFlags EXCEPT !.https = TRUE], nameserver |-> HttpsNs, txid |-> 7,
     transport |-> AbsentTransport, timeout |-> Undefined] }

Options(domains, type, class, retries, t) ==
  [domains |-> domains, type |-> type, class |-> class, retries |-> retries,
   txid |-> t.txid, tweaks |-> NoTweaks, nameserver |-> t.nameserver,
   transport |-> t.transport, timeout |-> t.timeout,
   udp |-> t.flags.udp, tcp |-> t.flags.tcp, tls |-> t.flags.tls,
   https |-> t.flags.https]

\* a retries option below zero, which the constructor does not reject
NegativeRetries == -2

\* clients of at most one query, with every value of retries, and clients of
\* two queries that give up after one or two attempts; they are run on a
\* network that can give every reply and every error
SmallClients ==
  {Options(d, ty, AbsentList, r, t) :
     d \in {AbsentNames, <<>>, <<Domain(1)>>}, ty \in {AbsentList, <<>>},
     r \in {Undefined, NegativeRetries} \cup 0..MaxRetries, t \in TransportChoices}
  \cup
  {Options(<<Domain(1), Domain(2)>>, AbsentList, AbsentList, r, t) :
     r \in {1, 2}, t \in TransportChoices}

AnyNetwork == [replies |-> ReplyKinds, errors |-> TransportErrors]

\* clients of up to MaxDomains * 2 * 2 queries; they are run on a network
\* that answers every call with a well-formed response
ProductClients ==
  {Options(d, ty, cl, Undefined, t) :
     d \in DomainLists,
     ty \in {AbsentList, <<>>, <<RT_MX>>, <<RT_MX, RT_A>>},
     cl \in {AbsentList, <<>>, <<QC_CH, QC_IN>>},
     t \in {tc \in TransportChoices : tc.flags.udp}}

AnsweringNetwork == [replies |-> {"ok", "nx"}, errors |-> {}]

\* "1.1.1.1:53", "d.e", "::1" and "f::1%e"
NsWithPort  == <<49, 46, 49, 46, 49, 46, 49, 58, 53, 51>>
NsHostname  == <<100, 46, 101>>
NsIpv6      == <<58, 58, 49>>
NsLinkLocal == <<102, 58, 58, 49, 37, 101>>

NameserverForms == {<<>>, Ns9, NsWithPort, NsHostname, NsIpv6, NsLinkLocal, HttpsNs}

FlagChoices == [udp : BOOLEAN, tcp : BOOLEAN, tls : BOOLEAN, https : BOOLEAN]

TransportOptions ==
  {AbsentTransport, TransportConfig(""), TransportConfig("udp"),
   TransportConfig("tcp"), TransportString("tcp")}

\* "a..b", which validateDomainName rejects, and the number between
\* RecordType.NS and RecordType.CNAME, which is no RecordType
BadDomain == <<LetterA, DOT, DOT, 98>>
BadType   == RT_CNAME - 1

\* clients of one query made with every combination of the transport flags,
\* every form of nameserver and every form of options.transport, and
\* clients whose domain or record type is invalid as well
SelectionClients ==
  {Options(<<Domain(1)>>, AbsentList, AbsentList, 1,
           [flags |-> f, nameserver |-> ns, txid |-> Undefined, transport |-> tr,
            timeout |-> Undefined]) :
     f \in FlagChoices, ns \in NameserverForms, tr \in TransportOptions}
  \cup
  {Options(d, ty, AbsentList, 1,
           [flags |-> f, nameserver |-> Ns9, txid |-> Undefined,
            transport |-> AbsentTransport, timeout |-> Undefined]) :
     d \in {<<Domain(1)>>, <<BadDomain>>}, ty \in {AbsentList, <<BadType>>},
     f \in FlagChoices}

ClientAt(o, network, at) ==
  /\ opts = o
  /\ net = network
  /\ pc = at
  /\ nameserver = <<>>
  /\ queries = <<>>
  /\ qi = 0
  /\ request = <<>>
  /\ attempt = 0
  /\ inflight = NoCall
  /\ responses = <<>>
  /\ lastError = ""
  /\ error = <<>>
  /\ backoffTime = 0
  /\ calls = <<>>
  /\ nCalls = 0
  /\ nFallbacks = 0
  /\ waits = <<>>
  /\ accepted = <<>>
  /\ anyOk = FALSE
  /\ reads = 0

ClientIdle ==
  ClientAt(Options(AbsentNames, AbsentList, AbsentList, Undefined,
                   [flags |-> NoFlags, nameserver |-> <<>>, txid |-> Undefined,
                    transport |-> AbsentTransport, timeout |-> Undefined]),
           [replies |-> {}, errors |-> {}], "idle")

----------------------------------------------------------------------------
(* Specifications                                                          *)

\* new DnsClient(options), then DnsClient.query of the constructed client
Init ==
  /\ \/ \E o \in SmallClients : ClientAt(o, AnyNetwork, "new")
     \/ \E o \in ProductClients \cup SelectionClients :
          ClientAt(o, AnsweringNetwork, "new")
  /\ FlagIdle /\ QueryIdle /\ NameIdle /\ AnswerIdle /\ SocketIdle

Next ==
  \/ Construct
  \/ ResolveNameserver
  \/ BuildQueriesStep
  \/ NextQuery
  \/ RetryLoopExit
  \/ TransportCall
  \/ TransportResolve
  \/ TransportReject
  \/ TcpResolve
  \/ TcpReject
  \/ BackoffElapsed

Spec == Init /\ [][Next]_vars

\* the flag codec on every Flags value
InitFlags ==
  /\ fin \in FlagsValues
  /\ fout = [bytes |-> <<0, 0>>, bytes2 |-> <<0, 0>>, flags |-> FlagsDefault]
  /\ fpc = "ready"
  /\ QueryIdle /\ NameIdle /\ AnswerIdle /\ SocketIdle /\ ClientIdle

NextFlags == FlagRoundTrip

SpecFlags == InitFlags /\ [][NextFlags]_vars

\* buildQuery and the decoder on every generated query
InitQueryCodec ==
  /\ qin \in QueryInputs
  /\ qout = [req |-> Err(""), header |-> Err(""), question |-> Err("")]
  /\ qpc = "ready"
  /\ FlagIdle /\ NameIdle /\ AnswerIdle /\ SocketIdle /\ ClientIdle

NextQueryCodec == QueryRoundTrip

SpecQueryCodec == InitQueryCodec /\ [][NextQueryCodec]_vars

\* readAnswer on every generated record
InitAnswer ==
  /\ ain \in AnswerInputs
  /\ aout = Err("")
  /\ apc = "ready"
  /\ FlagIdle /\ QueryIdle /\ NameIdle /\ SocketIdle /\ ClientIdle

NextAnswer == ReadAnswerStep

SpecAnswer == InitAnswer /\ [][NextAnswer]_vars

\* parseResponse of both drafts on every generated message
InitResponse ==
  /\ ain \in ResponseInputs
  /\ aout = Err("")
  /\ apc = "ready"
  /\ FlagIdle /\ QueryIdle /\ NameIdle /\ SocketIdle /\ ClientIdle

NextResponse == ParseResponseStep

SpecResponse == InitResponse /\ [][NextResponse]_vars

\* one call of query() of the UDP, TCP or TLS transport
InitTransport ==
  /\ tin \in TransportInputs
  /\ tq = QueryStarted(tin)
  /\ FlagIdle /\ QueryIdle /\ NameIdle /\ AnswerIdle /\ ClientIdle

NextTransport ==
  \/ TcpConnected
  \/ TlsConnected
  \/ WriteCallback
  \/ SocketError
  \/ SocketData
  \/ SocketEnd
  \/ UdpMessage
  \/ Timeout

SpecTransport == InitTransport /\ [][NextTransport]_vars

\* the same, with the timer: a timer that is armed and not cleared fires
SpecTransportFair == SpecTransport /\ WF_vars(Timeout)

\* a call of query() of a transport, or a run of DnsClient.query for two
\* domains over UDP or TCP on a network that can give every reply and every
\* error: the timer of the transport fires unless it is cleared, and the
\* client goes on when the promise it awaits settles or its backoff timer
\* fires
SettlingClients ==
  {Options(<<Domain(1), Domain(2)>>, AbsentList, AbsentList, r, t) :
     r \in {NegativeRetries, 2},
     t \in {tc \in TransportChoices : ~tc.flags.tls /\ ~tc.flags.https /\ ~tc.flags.udp}}

InitSettles ==
  \/ InitTransport
  \/ /\ \E o \in SettlingClients : ClientAt(o, AnyNetwork, "new")
     /\ FlagIdle /\ QueryIdle /\ NameIdle /\ AnswerIdle /\ SocketIdle

NextSettles == NextTransport \/ Next

\* the steps of DnsClient.query that run without waiting, and the end of
\* the backoff wait
Proceeds ==
  \/ Construct
  \/ ResolveNameserver
  \/ BuildQueriesStep
  \/ NextQuery
  \/ RetryLoopExit
  \/ TransportCall
  \/ BackoffElapsed

SpecSettles ==
  /\ InitSettles /\ [][NextSettles]_vars
  /\ WF_vars(Timeout)
  /\ WF_vars(Proceeds)
  /\ WF_vars(TransportReject \/ TransportResolve)
  /\ WF_vars(TcpReject \/ TcpResolve)

\* one call of query() of the HTTPS transport
InitHttps ==
  /\ tin \in HttpsInputs
  /\ tq = HttpsStarted(tin)
  /\ FlagIdle /\ QueryIdle /\ NameIdle /\ AnswerIdle /\ ClientIdle

NextHttps ==
  \/ HttpsResponse
  \/ HttpsData
  \/ HttpsEnd
  \/ HttpsError
  \/ HttpsTimeout

SpecHttps == InitHttps /\ [][NextHttps]_vars

\* readName of both drafts on every generated buffer
InitName ==
  /\ dbuf \in NameBuffers \cup ReservedLabelBuffers
  /\ draft \in {1, 2}
  /\ n1 = ReadName1Start(0)
  /\ n2 = ReadName2Start(0)
  /\ dres = Err("")
  /\ FlagIdle /\ QueryIdle /\ AnswerIdle /\ SocketIdle /\ ClientIdle

NextName == Name1Step \/ Name2Enter \/ Name2Overflow \/ Name2Iter \/ Name2Return

SpecName == InitName /\ [][NextName]_vars

----------------------------------------------------------------------------
(* Properties of DnsClient.query (specification Spec)                      *)

\* the TC bit of a message, read from its octets: bit 1 of octet 2
TcBit(msg) == Len(msg) >= 4 /\ (msg[3] \div 2) % 2 = 1

\* a response has just been appended for query qi - 1; calls still holds
\* the transport calls of the attempt that produced it
JustAccepted == pc = "next" /\ qi > 1 /\ calls # <<>>

\* C1, as claimed: when the selected transport is UDP and a UDP response
\* has TC=1, exactly one TCP transport call is issued for that DNS query
\* (never a second one), with the request octets and nameserver of the UDP
\* call, and the response appended is the parsed TCP response.
C1_OneTcpCallPerQuery ==
  /\ nFallbacks <= 1
  /\ \A i \in 1..Len(calls) :
       calls[i].fallback =>
         /\ i = 2 /\ calls[i].kind = "tcp"
         /\ calls[i].req = calls[1].req /\ calls[i].ns = calls[1].ns
  /\ (JustAccepted /\ calls[Len(calls)].fallback) =>
       responses[Len(responses)] = ParseResponse1(calls[Len(calls)].reply).val

\* C1, amended: every UDP response with TC=1 is followed, within its
\* attempt, by exactly one TCP transport call carrying the same request
\* octets to the same nameserver; a TCP call is made for no other reason;
\* when the query is accepted after a truncated UDP response, the response
\* appended is the parsed TCP response, never the truncated UDP one.  (A
\* failed TCP call fails the attempt, so a query makes at most one TCP call
\* per attempt.)
C1_TruncationFallback ==
  /\ Len(calls) <= 2
  /\ nFallbacks <= attempt + 1
  /\ \A i \in 1..Len(calls) :
       calls[i].fallback =>
         /\ i = 2 /\ calls[i].kind = "tcp"
         /\ calls[1].kind = "udp" /\ ~calls[1].fallback
         /\ calls[1].settled = "resolved" /\ TcBit(calls[1].reply)
         /\ calls[i].req = calls[1].req /\ calls[i].ns = calls[1].ns
         /\ calls[i].attempt = calls[1].attempt
         /\ calls[i].req = request /\ calls[i].ns = nameserver
  /\ (/\ transportType = "udp" /\ calls # <<>>
      /\ calls[1].settled = "resolved" /\ Received(calls[1].reply).ok
      /\ TcBit(calls[1].reply)) =>
       Len(calls) = 2 /\ calls[2].fallback
  /\ (JustAccepted /\ transportType = "udp") =>
       LET last == calls[Len(calls)]
       IN  /\ last.settled = "resolved"
           /\ responses[Len(responses)] = ParseResponse1(last.reply).val
           /\ TcBit(calls[1].reply) => last.fallback

\* a query accepted through the fallback: UDP truncated, TCP answered
C1_Witness ==
  /\ JustAccepted /\ Len(calls) = 2 /\ calls[2].fallback
  /\ calls[2].settled = "resolved" /\ ~TcBit(calls[2].reply)
  /\ responses[Len(responses)].answers # <<>>

\* C2: with retries = k >= 1 and a transport whose every call fails,
\* query() makes exactly k transport attempts, all for the first query of
\* the product, and fails with the error of the k-th attempt.
C2_RetriesExhausted ==
  (/\ pc = "failed" /\ ~anyOk /\ queries # <<>>
   /\ opts.retries # Undefined /\ opts.retries >= 1) =>
    /\ nCalls = opts.retries
    /\ attempt + 1 = opts.retries
    /\ qi = 1 /\ responses = <<>> /\ inflight = NoCall
    /\ calls[Len(calls)].settled = "rejected"
    /\ error = QueryFailed(calls[Len(calls)].err)

C2_Witness ==
  /\ pc = "failed" /\ ~anyOk /\ opts.retries = 2 /\ nCalls = 2
  /\ Len(queries) = 2

\* C3: the wait after failed attempt n, before attempt n+1, is
\* 2^(n-1) * 1000 ms (1000, 2000, 4000, ...), one wait per failed attempt
\* that is followed by another attempt, and none after the final failure.
C3_BackoffSchedule ==
  /\ Len(waits) = attempt
  /\ \A n \in 1..Len(waits) :
       waits[n] = IF n = 1 THEN 1000 ELSE 2 * waits[n - 1]
  /\ pc = "backoff" => backoffTime = (IF attempt = 0 THEN 1000 ELSE 2 * waits[attempt])
  /\ (pc = "failed" /\ nCalls > 0) => Len(waits) = maxRetries(opts) - 1

C3_Witness ==
  /\ pc = "failed" /\ Len(waits) = 3 /\ waits = <<1000, 2000, 4000>>

\* C4, as claimed: with retries = 0 every query gets exactly one transport
\* attempt: no backoff is entered and no second attempt is made.
C4_ZeroRetriesOneAttempt ==
  opts.retries = 0 => attempt = 0 /\ pc # "backoff"

\* C5: when query() returns, the result holds |domains| * |types| *
\* |classes| responses and the n-th is the response accepted for the n-th
\* query of the product, domains outermost, then types, then classes.
C5_ResponseOrder ==
  pc = "returned" =>
    LET D == opts.domains
        T == ResolveTypes(opts)
        C == ResolveClasses(opts)
    IN  /\ Len(responses) = Len(D) * Len(T) * Len(C)
        /\ Len(queries) = Len(responses)
        /\ \A i \in 1..Len(D), j \in 1..Len(T), k \in 1..Len(C) :
             LET n == ((i - 1) * Len(T) + (j - 1)) * Len(C) + k
             IN  /\ queries[n] = [name |-> D[i], type |-> T[j], class |-> C[k]]
                 /\ accepted[n] = <<responses[n]>>

C5_Witness ==
  /\ pc = "returned" /\ Len(responses) = 8
  /\ responses[1] # responses[2] /\ responses[2] = responses[3]
  /\ queries[2].class # queries[1].class /\ queries[3].type # queries[1].type
  /\ queries[5].name # queries[1].name

\* C6, as claimed: a response whose id differs from the id of the request
\* is never appended to the result.
C6_TxIdChecked ==
  JustAccepted => responses[Len(responses)].id = ReadUInt16BE(request, 0)

----------------------------------------------------------------------------
(* Properties of the codec                                                 *)

\* C7, as claimed (specification SpecQueryCodec): for every valid Query,
\* readHeader and readQuestion on the output of buildQuery yield QDCOUNT=1
\* and a question equal to the original, with the cursor at the end of the
\* buffer.
C7_QueryRoundTrip ==
  (qpc = "done" /\ WireLength(qin.query.name) <= MAX_NAME_LENGTH) =>
    /\ qout.req.ok
    /\ qout.header.ok /\ qout.header.val.counts.qdcount = 1
    /\ qout.question.ok
    /\ qout.question.val = qin.query
    /\ qout.question.off = Len(qout.req.val)

\* the pointer faults of a name that starts at pos: a pointer that targets
\* its own position or a later one, a pointer met twice (a loop), or more
\* pointers than the jump cap allows
RECURSIVE PointerFault(_, _, _)
PointerFault(buf, pos, seen) ==
  IF pos >= Len(buf) THEN FALSE
  ELSE LET len == buf[pos + 1]
       IN  IF len = 0 THEN FALSE
           ELSE IF len >= 192
           THEN IF pos + 1 >= Len(buf) THEN FALSE
                ELSE LET target == (len - 192) * 256 + buf[pos + 2]
                     IN  \/ target >= pos
                         \/ pos \in seen
                         \/ Cardinality(seen) + 1 > JumpLimit
                         \/ PointerFault(buf, target, seen \cup {pos})
           ELSE IF len >= 64 THEN FALSE
           ELSE PointerFault(buf, pos + 1 + len, seen)

\* C8, as claimed (specification SpecName): readName of draft 1 raises an
\* error, and returns no name, whenever the name has a pointer that targets
\* itself or a later offset, or that is part of a loop, or when the chain
\* exceeds the jump cap.  (The source has no error kinds; any error thrown
\* is taken for InvalidPointer.)
C8_InvalidPointerRaised ==
  (draft = 1 /\ n1.status # "run" /\ PointerFault(dbuf, 0, {})) => ~dres.ok

\* C9, as claimed (specification SpecName): name decoding terminates on
\* every buffer in both drafts and never recurses without bound: the loop
\* of draft 1 makes at most JumpLimit passes, and draft 2 never enters
\* readName at an offset that a suspended caller was entered at (the
\* decoder being deterministic, such a call repeats its caller and the
\* recursion has no end but the exhaustion of the call stack).
C9_NameDecodingTerminates ==
  /\ draft = 1 => n1.jumps <= JumpLimit
  /\ draft = 2 =>
       /\ \A i \in 1..Len(n2.stack) : n2.stack[i].entry # n2.entry
       /\ dres.err # "Maximum call stack size exceeded"

\* 0 or 1 for a flag
Bit(b) == IF b THEN 1 ELSE 0

\* C10 (specification SpecFlags): for every Flags value with OPCODE and
\* RCODE in 0..15, fromBuffer(toBuffer(flags)) is the original, and the two
\* octets follow the wire layout: byte0 = QR, OPCODE(4), AA, TC, RD; byte1 =
\* RA, Z = 0, AD, CD, RCODE(4).
C10_FlagsRoundTrip ==
  fpc = "done" =>
    /\ fout.flags = fin
    /\ Len(fout.bytes) = 2
    /\ fout.bytes[1] = 128 * Bit(fin.response) + 8 * fin.opcode
                         + 4 * Bit(fin.authoritative) + 2 * Bit(fin.truncated)
                         + Bit(fin.recursionDesired)
    /\ fout.bytes[2] = 128 * Bit(fin.recursionAvailable)
                         + 32 * Bit(fin.authenticData)
                         + 16 * Bit(fin.checkingDisabled) + fin.responseCode
    /\ (fout.bytes[2] \div 64) % 2 = 0

C10_Witness ==
  /\ fpc = "done"
  /\ fin.response /\ fin.opcode = 15 /\ ~fin.authoritative /\ fin.truncated
  /\ ~fin.recursionDesired /\ fin.recursionAvailable /\ ~fin.authenticData
  /\ ~fin.checkingDisabled /\ fin.responseCode = 9
  /\ fout.bytes = <<250, 137>>

\* bit k of an octet, bit 0 the least significant
BitSet(octet, k) == (octet \div Pow2(k)) % 2 = 1

\* C11, as claimed (specification SpecQueryCodec): the flags of every query
\* built by buildQuery are QR=0, OPCODE=0, RD=1, RCODE=0, and the AA, AD and
\* CD bits are those of the tweaks authoritative, authenticData and
\* checkingDisabled passed in options.
C11_QueryFlags ==
  (qpc = "done" /\ qout.req.ok) =>
    LET b0 == qout.req.val[3]
        b1 == qout.req.val[4]
        t  == qin.options.tweaks
    IN  /\ ~BitSet(b0, 7)
        /\ (b0 \div 8) % 16 = 0
        /\ BitSet(b0, 0)
        /\ b1 % 16 = 0
        /\ BitSet(b0, 2) = t.authoritative
        /\ BitSet(b1, 5) = t.authenticData
        /\ BitSet(b1, 4) = t.checkingDisabled

\* C14, as claimed (specification SpecQueryCodec): buildQuery fails for every
\* name whose encoded form is longer than 255 octets.
C14_LongNameRejected ==
  (qpc = "done" /\ WireLength(qin.query.name) > MAX_NAME_LENGTH) => ~qout.req.ok

----------------------------------------------------------------------------
(* Properties of record decoding (specification SpecAnswer)                *)

\* the cursor readName leaves after the owner name of the record
OwnerEnd == ReadName1(ain.buf, ain.offset).off

\* the RDLENGTH field of the record and the RDLENGTH octets after it
RdLength == ReadUInt16BE(ain.buf, OwnerEnd + 8)

RData == Slice(ain.buf, OwnerEnd + 10, OwnerEnd + 10 + RdLength)

\* C12 (specification SpecAnswer): when readAnswer returns a record, the
\* cursor is the cursor after the owner name plus 10 plus RDLENGTH, whatever
\* the record type and the RDATA are.
C12_CursorAfterRecord ==
  (apc = "done" /\ aout.ok) => aout.off = OwnerEnd + 10 + RdLength

\* a CNAME record is returned whose target name ends before RDATA does
C12_Witness ==
  /\ apc = "done"
  /\ aout.ok
  /\ aout.val.type = RT_CNAME
  /\ RdLength = 4
  /\ ReadName1(ain.buf, OwnerEnd + 10).off = OwnerEnd + 12

\* the character-strings of a TXT RDATA: each is a length octet and that
\* many octets
RECURSIVE WellFormedTxt(_)
WellFormedTxt(rdata) ==
  \/ rdata = <<>>
  \/ /\ 1 + rdata[1] <= Len(rdata)
     /\ WellFormedTxt(Slice(rdata, 1 + rdata[1], Len(rdata)))

\* their concatenation, the length octets removed
RECURSIVE TxtText(_)
TxtText(rdata) ==
  IF rdata = <<>> THEN <<>>
  ELSE Slice(rdata, 1, 1 + rdata[1]) \o TxtText(Slice(rdata, 1 + rdata[1], Len(rdata)))

\* C13, as claimed (specification SpecAnswer): the data of a TXT record is
\* the concatenation of the character-strings of its RDATA without their
\* length octets; 0B "v=spf1 test" decodes to the 11 characters "v=spf1 test".
C13_TxtText ==
  (apc = "done" /\ aout.ok /\ aout.val.type = RT_TXT /\ WellFormedTxt(RData)) =>
    aout.val.data = TxtText(RData)

----------------------------------------------------------------------------
(* Properties of the transports (specification SpecTransport)              *)

\* C15 (specification SpecTransport): however the reply stream is cut into
\* 'data' chunks, the TCP and TLS transports resolve with exactly the L
\* octets that follow the 2-octet prefix, L being its big-endian value; the
\* prefix is not part of the result.
C15_FramedReply ==
  (tin.kind \in {"tcp", "tls"} /\ tq.promise.state = "resolved") =>
    LET L == tin.stream[1] * 256 + tin.stream[2]
    IN  /\ Len(tin.stream) >= 2 + L
        /\ Len(tq.promise.value) = L
        /\ \A i \in 1..L : tq.promise.value[i] = tin.stream[2 + i]

\* a message of two octets is resolved after a first chunk of one octet,
\* which ends inside the prefix, and a last chunk that carries octets past
\* the end of the message
C15_Witness ==
  /\ tin.kind = "tcp"
  /\ tq.promise.state = "resolved"
  /\ tq.promise.value = <<7, 0>>
  /\ tq.firstChunk = 1
  /\ Len(tq.data) > tq.expectedLength

\* C16 (specification SpecTransport): whenever the promise of query() of
\* the UDP, TCP or TLS transport is settled, the socket has been closed or
\* destroyed.
C16_SocketReleased ==
  tq.promise.state # "pending" => tq.socket = "closed"

\* the TLS socket is not authorized: the promise is rejected and the socket
\* destroyed
C16_Witness ==
  /\ tin.kind = "tls"
  /\ tq.promise.state = "rejected"
  /\ tq.promise.err = "TLS authorization failed"
  /\ tq.socket = "closed"

----------------------------------------------------------------------------
(* Construction, transport selection and nameserver (specification Spec)   *)

\* the validation errors of DnsClient: those of the constructor, and 'No
\* domains specified' of query()
ValidationErrorRaised ==
  \/ pc = "rejected"
  \/ pc = "failed" /\ error = QueryFailed("No domains specified")

\* C17, as claimed: when a validation error is raised, /etc/resolv.conf has
\* not been read and no transport call has been made.
C17_ValidationBeforeIO ==
  ValidationErrorRaised => reads = 0 /\ nCalls = 0 /\ calls = <<>>

\* the number of the options udp, tcp, tls, https that are true
FlagsSet == Cardinality({f \in DOMAIN NoFlags : opts[f]})

TheFlag == CHOOSE f \in DOMAIN NoFlags : opts[f]

ConflictRaised ==
  pc = "rejected" /\ error = <<"Only one transport type can be specified">>

\* the transport of the first call of the current attempt
FlaggedTransportUsed ==
  (FlagsSet = 1 /\ calls # <<>>) => calls[1].kind = TheFlag

DomainsAndTypesValid ==
  /\ \/ opts.domains = AbsentNames
     \/ \A i \in 1..Len(opts.domains) : ValidateDomainName(opts.domains[i]) = ""
  /\ \/ opts.type = AbsentList
     \/ \A i \in 1..Len(opts.type) : ValidateRecordType(opts.type[i]) = ""

\* C18, as claimed: construction fails with the conflicting-transports error
\* exactly when more than one of udp, tcp, tls, https is true, and with one
\* flag the transport of the calls is the flagged one.
C18_ConflictingTransports ==
  pc # "new" => /\ ConflictRaised <=> FlagsSet > 1
                /\ FlaggedTransportUsed

\* C18, amended: construction fails with the conflicting-transports error
\* exactly when more than one of udp, tcp, tls, https is true and the
\* domains and record types are valid (they are validated first, and their
\* error is the one raised); with one flag the transport of the calls is the
\* flagged one.
C18_ConflictAfterDomainsAndTypes ==
  pc # "new" => /\ ConflictRaised <=> (FlagsSet > 1 /\ DomainsAndTypesValid)
                /\ FlaggedTransportUsed

C18_Witness ==
  /\ ConflictRaised
  /\ opts.tcp /\ opts.https /\ ~opts.udp /\ ~opts.tls
  /\ opts.domains = <<Domain(1)>>

DottedQuad(host) ==
  LET parts == Split(host)
  IN  /\ Len(parts) = 4
      /\ \A i \in 1..4 : /\ Len(parts[i]) \in 1..3
                         /\ \A j \in 1..Len(parts[i]) : IsDigit(parts[i][j])

\* a dotted quad, with or without a trailing :port
Ipv4WithOptionalPort(ns) ==
  \/ DottedQuad(ns)
  \/ \E k \in 2..(Len(ns) - 1) :
       /\ ns[k] = 58
       /\ DottedQuad(SubSeq(ns, 1, k - 1))
       /\ \A j \in (k + 1)..Len(ns) : IsDigit(ns[j])

\* C20, as claimed: the nameserver option given with a non-HTTPS transport
\* is the nameserver of the run when it is a dotted quad with or without a
\* trailing :port, and is not the nameserver of the run in any other form.
C20_NameserverUsed ==
  (pc = "build" /\ transportType # "https" /\ opts.nameserver # <<>>) =>
    IF Ipv4WithOptionalPort(opts.nameserver)
    THEN nameserver = opts.nameserver
    ELSE nameserver # opts.nameserver

----------------------------------------------------------------------------
(* Acceptance of responses (specification Spec)                            *)

\* the last transport call of the current attempt
LastCall == calls[Len(calls)]

\* the last call resolved with a message of 12 octets or more with QR set
\* that parseResponse parses, and no truncation fallback follows it
ParsedReply ==
  /\ calls # <<>>
  /\ LastCall.settled = "resolved"
  /\ Len(LastCall.reply) >= 12
  /\ BitAnd(ReadUInt16BE(LastCall.reply, 2), 32768) # 0
  /\ ParseResponse1(LastCall.reply).ok
  /\ \/ LastCall.fallback
     \/ ~(LastCall.kind = "udp" /\ TcBit(LastCall.reply))

\* the RCODE of a message, read from its octets: the low four bits of octet 3
Rcode(msg) == msg[4] % 16

\* C21: when a transport call resolves with a response that parses and has
\* a non-zero RCODE, the parsed response is appended to the result as it
\* is, in the attempt that received it, with no wait, no retry and no error.
C21_RcodeAccepted ==
  (ParsedReply /\ Rcode(LastCall.reply) # 0) =>
    /\ pc \in {"next", "returned"}
    /\ error = <<>>
    /\ attempt = LastCall.attempt
    /\ responses # <<>>
    /\ responses[Len(responses)] = ParseResponse1(LastCall.reply).val
    /\ responses[Len(responses)].flags.responseCode = Rcode(LastCall.reply)
    /\ accepted[qi - 1] = <<responses[Len(responses)]>>

C21_Witness ==
  /\ ParsedReply /\ Rcode(LastCall.reply) = 3
  /\ pc = "returned" /\ Len(responses) = 2
  /\ responses[2].flags.responseCode = 3 /\ responses[1].flags.responseCode = 0
  /\ attempt = 0

----------------------------------------------------------------------------
(* Properties of the HTTPS transport (specification SpecHttps)             *)

GoodReply == tin.status = HttpOk /\ tin.contentType = CONTENT_TYPE

\* C22 (specification SpecHttps): the promise is resolved only for a reply
\* of status 200 and content type application/dns-message, and then with
\* the body; when the response of any other reply has ended the promise is
\* rejected, by the 'end' handler with an error that carries the status or,
\* for status 200, the content type (or earlier by a timeout or an error of
\* the request).
C22_HttpsReply ==
  /\ tq.promise.state = "resolved" =>
       GoodReply /\ tq.res = "ended" /\ tq.promise.value = tin.body
  /\ (tq.res = "ended" /\ ~GoodReply) =>
       /\ tq.promise.state = "rejected"
       /\ tq.promise.value = <<>>
       /\ tq.promise.err =
            IF tin.status # HttpOk THEN StatusError(tin.status)
            ELSE ContentTypeError(tin.contentType)

\* a reply of status 200 whose content type carries a parameter: the whole
\* body was received in two chunks and the promise is rejected
C22_Witness ==
  /\ tin.status = HttpOk
  /\ tin.contentType = "application/dns-message; charset=utf-8"
  /\ tq.res = "ended" /\ Len(tq.chunks) = 2 /\ Combined(tq.chunks) = tin.body
  /\ tq.promise.state = "rejected"
  /\ tq.promise.err.msg = "Invalid content type"

----------------------------------------------------------------------------
(* The query product (specification Spec)                                  *)

\* the list of queries has just been built
QueriesBuilt == pc = "next" /\ qi = 1

\* C23, as claimed: the queries built are the product of the domains with
\* the types, [A] when the type option is absent or an empty list, and the
\* classes, [IN] when the class option is absent or an empty list; a client
\* with a domain has at least one query.
C23_DefaultTypeAndClass ==
  QueriesBuilt =>
    LET T == IF opts.type \in {AbsentList, <<>>} THEN <<RT_A>> ELSE opts.type
        C == IF opts.class \in {AbsentList, <<>>} THEN <<QC_IN>> ELSE opts.class
    IN  /\ queries = ForDomains(opts.domains, T, C, 1)
        /\ Len(queries) >= 1

----------------------------------------------------------------------------
(* Names, labels and records of the first draft's decoder                  *)

\* C24, as claimed (specification SpecQueryCodec): readName, called by
\* readQuestion on the name buildQuery wrote (labels of 1..63 octets, at
\* most 255 octets, ended by a zero octet, no pointer), returns the labels
\* joined by '.' and leaves the cursor after the zero octet.
C24_NameDecoded ==
  (qpc = "done" /\ WireLength(qin.query.name) <= MAX_NAME_LENGTH) =>
    /\ qout.question.ok
    /\ qout.question.val.name = qin.query.name
    /\ qout.question.off - 4 = DNS_HEADER_SIZE + WireLength(qin.query.name)

\* the two most significant bits of a length octet are 01 or 10
ReservedLength(octet) == (octet \div 64) % 4 \in {1, 2}

\* C25, as claimed (specification SpecName): when readName of draft 1 is
\* over, a name that starts with a length octet of bits 01 or 10 has raised
\* an error, and no label returned has 64 octets or more.  (The source has
\* no error kinds; any error thrown is taken for InvalidLabel.)
C25_ReservedLabelRejected ==
  (draft = 1 /\ n1.status # "run") =>
    /\ (dbuf # <<>> /\ ReservedLength(dbuf[1])) => ~dres.ok
    /\ \A i \in 1..Len(n1.labels) : Len(n1.labels[i]) <= MAX_LABEL_LENGTH

\* the owner name of the record is read and the ten octets of TYPE, CLASS,
\* TTL and RDLENGTH are in the buffer
PreambleRead ==
  /\ apc = "done"
  /\ ReadName1(ain.buf, ain.offset).ok
  /\ CanRead(ain.buf, OwnerEnd, 10)

\* C26 (specification SpecAnswer): a record whose RDLENGTH extends past the
\* end of the buffer raises the out-of-bounds error of readAnswer, whatever
\* its type, and no record is returned.
C26_TruncatedRecordRejected ==
  (PreambleRead /\ OwnerEnd + 10 + RdLength > Len(ain.buf)) =>
    ~aout.ok /\ aout.err = OutOfBounds

\* an A record with RDLENGTH 5 and four octets of RDATA: the error is the
\* one of readAnswer, not 'Invalid IPv4 length' of readRData
C26_Witness ==
  /\ PreambleRead
  /\ ReadUInt16BE(ain.buf, OwnerEnd) = RT_A
  /\ RdLength = 5 /\ Len(ain.buf) = OwnerEnd + 10 + 4
  /\ ~aout.ok /\ aout.err = OutOfBounds

\* the octets the switch of readRData consumes for the record
Consumed ==
  ReadRDataSwitch1(ain.buf, OwnerEnd + 10, ReadUInt16BE(ain.buf, OwnerEnd), RdLength)

\* C27, as claimed (specification SpecAnswer): when the decoding of the
\* RDATA of a record consumes a number of octets other than RDLENGTH,
\* readAnswer fails and returns no record.  (The source has no error kinds;
\* any error thrown is taken for InvalidFormat.)
C27_LengthMismatchRejected ==
  (PreambleRead /\ CanRead(ain.buf, OwnerEnd + 10, RdLength)
     /\ Consumed.ok /\ Consumed.off - (OwnerEnd + 10) # RdLength) =>
    ~aout.ok
----------------------------------------------------------------------------
(* parseResponse: the QR bit and the flags (specification SpecResponse)    *)

\* the QR bit of a message: bit 7 of octet 2
QrBit(msg) == msg[3] \div 128 = 1

\* octets 2 and 3 of a message, decoded per the wire layout
WireFlags(msg) ==
  [response           |-> msg[3] \div 128 = 1,
   opcode             |-> (msg[3] \div 8) % 16,
   authoritative      |-> (msg[3] \div 4) % 2 = 1,
   truncated          |-> (msg[3] \div 2) % 2 = 1,
   recursionDesired   |-> msg[3] % 2 = 1,
   recursionAvailable |-> msg[4] \div 128 = 1,
   authenticData      |-> (msg[4] \div 32) % 2 = 1,
   checkingDisabled   |-> (msg[4] \div 16) % 2 = 1,
   responseCode       |-> msg[4] % 16]

\* what the claim asks of the outcome r of parseResponse on msg
QrDecides(msg, r) ==
  IF QrBit(msg) THEN r.ok /\ r.val.flags = WireFlags(msg)
  ELSE ~r.ok /\ r.err = "Not a DNS response"

\* C28: in both drafts parseResponse, on a message of at least 12 octets
\* with well-formed sections, fails with 'Not a DNS response' exactly when
\* the QR bit is clear, and otherwise returns flags equal to octets 2..3
\* decoded per the wire layout.
C28_QrDecidesResponse ==
  (apc = "parsed" /\ Len(ain.buf) >= DNS_HEADER_SIZE)
    => QrDecides(ain.buf, aout.draft1) /\ QrDecides(ain.buf, aout.draft2)
----------------------------------------------------------------------------
(* The TCP transport: failures (specification SpecTransportFair)           *)

\* the peer has closed the connection before length + 2 octets arrived
EarlyEof ==
  /\ tin.kind = "tcp"
  /\ tq.socket = "ended"
  /\ (tq.expectedLength = -1 \/ Len(tq.data) < tq.expectedLength)

\* the promise is rejected with an error of its own, not the timer's
EofReported ==
  /\ tq.promise.state = "rejected"
  /\ tq.promise.err # TimedOut("tcp")

\* C29: the TCP transport rejects with the corresponding error on a
\* timeout, on a connection reset and on an early end of the stream: when
\* the peer closes the connection before length + 2 octets have arrived,
\* the query fails with the error of that event.
C29_TcpFailureReported == [](EarlyEof => <>EofReported)
----------------------------------------------------------------------------
(* The request of a query across its transport calls                       *)

\* C30: the request of a query is encoded once, when the query is taken up,
\* and every transport call made for it, in each attempt and in the TCP
\* fallback, is given these octets, hence the same transaction id.
C30_SameRequestBytes ==
  [][/\ (pc # "next" => request' = request)
     /\ (inflight' # NoCall => inflight'.req = request')]_vars

\* no txid option, the id drawn at random; in the second attempt the UDP
\* call and the TCP fallback have both been given the request
C30_Witness ==
  /\ pc = "awaitTcp"
  /\ opts.txid = Undefined
  /\ attempt = 1
  /\ Len(calls) = 2 /\ calls[1].req = request /\ ~calls[1].fallback
  /\ inflight.fallback /\ inflight.req = request
  /\ ReadUInt16BE(request, 0) = 65535
----------------------------------------------------------------------------
(* The deadline of a transport call                                        *)

\* the timeout option of the client, or 5000 ms when there is none
ConfiguredTimeout == IF opts.timeout = Undefined THEN TIMEOUT ELSE opts.timeout

\* C31: the deadline of every transport call is the client's timeout option
\* when one is given and 5000 ms otherwise.
C31_DeadlineIsTimeoutOption ==
  inflight # NoCall => inflight.deadline = ConfiguredTimeout
----------------------------------------------------------------------------
(* The names the constructor accepts, encoded (specification               *)
(* SpecQueryCodec)                                                         *)

\* the QNAME of a request: what lies between the header and QTYPE
Qname(req) == SubSeq(req, DNS_HEADER_SIZE + 1, Len(req) - 4)

\* the indexes of the length octets of a QNAME, found by walking it from
\* index i: each length octet is followed by that many octets of a label
RECURSIVE LengthIndexes(_, _)
LengthIndexes(q, i) ==
  IF i > Len(q) THEN {}
  ELSE IF q[i] = 0 THEN {i}
  ELSE {i} \cup LengthIndexes(q, i + q[i] + 1)

\* a QNAME of labels of 1..63 octets that ends with its only zero octet
WellFormedQname(q) ==
  /\ q # <<>> /\ q[Len(q)] = 0
  /\ Cardinality({i \in 1..Len(q) : q[i] = 0}) = 1
  /\ Len(q) \in LengthIndexes(q, 1)
  /\ \A i \in LengthIndexes(q, 1) \ {Len(q)} : q[i] >= 1 /\ q[i] <= MAX_LABEL_LENGTH

\* C32: every domain validateDomainName accepts is encoded without error;
\* its QNAME has length(domain) + 2 octets, at most 255, every length octet
\* is in 1..63, and the only zero octet is the terminator at the end.
C32_AcceptedNameEncoded ==
  (qpc = "done" /\ ValidateDomainName(qin.query.name) = "") =>
    /\ qout.req.ok
    /\ Len(Qname(qout.req.val)) = Len(qin.query.name) + 2
    /\ Len(Qname(qout.req.val)) <= MAX_NAME_LENGTH
    /\ WellFormedQname(Qname(qout.req.val))

\* a name of 253 characters is accepted and encoded in 255 octets
C32_Witness ==
  /\ qpc = "done"
  /\ ValidateDomainName(qin.query.name) = ""
  /\ Len(qin.query.name) = MAX_NAME_LENGTH - 2
  /\ qout.req.ok
  /\ Len(Qname(qout.req.val)) = MAX_NAME_LENGTH
----------------------------------------------------------------------------
(* The nameserver handed to the transports                                 *)

\* four decimal numbers of one to three digits, each at most 255, with dots
\* between them
BareIPv4(ns) ==
  LET parts == Split(ns)
  IN  /\ Len(parts) = 4
      /\ \A i \in 1..4 :
           /\ Len(parts[i]) \in 1..3
           /\ \A j \in 1..Len(parts[i]) : IsDigit(parts[i][j])
           /\ ParseInt(parts[i]) <= 255

\* C33: a transport other than HTTPS, the TCP fallback included, is never
\* handed a nameserver that begins with https://: the nameserver of its
\* calls is a bare IPv4 literal.
C33_PlainNameserver ==
  (inflight # NoCall /\ inflight.kind # "https") =>
    ~StartsWith(inflight.ns, HttpsPrefix) /\ BareIPv4(inflight.ns)
----------------------------------------------------------------------------
(* Failure of a query of the product                                       *)

NoResponses == QueryFailed("No responses received")

\* C34: when a query of the product exhausts its retries, query() rejects
\* with that error and nothing runs after it, so no later query is attempted
\* and no response is returned; the failure 'No responses received' arises
\* only when the product of queries is empty.
C34_FailureIsFinal ==
  /\ [][(pc \in {"awaitPrimary", "awaitTcp"} /\ lastError' # lastError
         /\ attempt = maxRetries(opts) - 1)
          => pc' = "failed" /\ error' = QueryFailed(lastError')]_vars
  /\ [][pc = "failed" => pc' = "failed" /\ nCalls' = nCalls /\ qi' = qi]_vars
  /\ []((pc = "failed" /\ error = NoResponses) => queries = <<>>)
----------------------------------------------------------------------------
(* Reads of the first draft's readName (specification SpecName)            *)

\* the indexes of the buffer a pass of the loop of readName needs: the
\* length octet and, after it, the second octet of a pointer or the octets
\* of a label
IndexesOfPass(buf, s) ==
  {s.jumpOffset} \cup
  (IF s.jumpOffset >= Len(buf) \/ buf[s.jumpOffset + 1] = 0 THEN {}
   ELSE IF (buf[s.jumpOffset + 1] \div 64) % 4 = 3 THEN {s.jumpOffset + 1}
   ELSE (s.jumpOffset + 1)..(s.jumpOffset + buf[s.jumpOffset + 1]))

\* C35: the first draft's decoder never uses an octet at an index >=
\* buffer.length: a pass of readName that needs such an octet, the second
\* octet of a pointer and a pointer's target included, raises 'Out of
\* bounds access'.
C35_NoReadOutsideBuffer ==
  [][(/\ draft = 1 /\ n1.status = "run" /\ n1.jumps < JumpLimit
      /\ \E i \in IndexesOfPass(dbuf, n1) : i >= Len(dbuf))
       => n1'.status = "err" /\ n1'.err = OutOfBounds]_vars
----------------------------------------------------------------------------
(* Termination (specification SpecSettles)                                 *)

Settled == tq.promise.state \in {"resolved", "rejected"}

Finished == pc \in {"returned", "failed", "rejected"}

\* C36: every query of the UDP, TCP or TLS transport eventually resolves or
\* rejects, whatever the peer sends, given that its timer fires; every
\* attempt of the retry loop eventually completes, and DnsClient.query
\* eventually returns or fails.
C36_EventuallySettles ==
  /\ [](tin.kind \in {"udp", "tcp", "tls"} => <>Settled)
  /\ [](pc \in {"awaitPrimary", "awaitTcp"} => <>(pc \notin {"awaitPrimary", "awaitTcp"}))
  /\ [](pc = "new" => <>Finished)

\* a peer that sent a part of its reply and nothing more: the TCP query was
\* rejected by its timer
C36_Witness ==
  /\ tin.kind = "tcp"
  /\ tq.data # <<>> /\ tq.rest = <<>>
  /\ tq.timer = "fired"
  /\ tq.promise.state = "rejected" /\ tq.promise.err = TimedOut("tcp")
----------------------------------------------------------------------------
(* The racing events of a transport call (specification SpecTransport)     *)

TimerWon ==
  /\ tq.timer = "fired"
  /\ tq.promise.state = "rejected" /\ tq.promise.err = TimedOut(tin.kind)

\* the first of the racing events fixes the outcome: after a reply the timer
\* is cleared, a timer that fires on a pending promise rejects it with the
\* timeout error, and a settled promise and its closed socket stay as they
\* are
OutcomeFixed ==
  /\ [](tq.promise.state = "resolved" => tq.timer = "cleared")
  /\ [][(tq.promise.state = "pending" /\ tq'.timer = "fired" /\ tq.timer = "armed")
          => tq'.promise = [state |-> "rejected", value |-> <<>>,
                            err |-> TimedOut(tin.kind)]]_vars
  /\ [][Settled => tq'.promise = tq.promise /\ tq'.socket = "closed"]_vars

\* C37, as claimed: the outcome is fixed by the first of the racing events,
\* and when the timer fired first, a reply or an error that arrives
\* afterwards neither changes the outcome nor touches the socket again.
C37_FirstEventFinal ==
  /\ OutcomeFixed
  /\ [][TimerWon => tq'.destroys = tq.destroys]_vars

----------------------------------------------------------------------------
(* The timer on the exit paths of a transport call (SpecTransport)         *)

\* the promise settled on a path other than the timeout itself
SettledOtherwise ==
  /\ tq.promise.state # "pending"
  /\ ~(tq.promise.state = "rejected" /\ tq.promise.err = TimedOut(tin.kind))

\* C38: on every exit path other than the timeout itself (reply, socket
\* error, send or write error, TLS authorization failure) the timer has been
\* cancelled when the promise settles.
C38_TimerCancelled == SettledOtherwise => tq.timer = "cleared"

----------------------------------------------------------------------------
(* The two drafts of DnsFlags.toBuffer (specification SpecFlags)           *)

\* C39: the two drafts of DnsFlags.toBuffer produce the same two octets for
\* every Flags value with OPCODE and RCODE in 0..15.
C39_DraftsAgree == fpc = "done" => fout.bytes2 = fout.bytes

\* every flag set, OPCODE 15 and RCODE 15: both drafts give FF BF
C39_Witness ==
  /\ fpc = "done"
  /\ fin.response /\ fin.opcode = 15 /\ fin.recursionDesired
  /\ fin.recursionAvailable /\ fin.responseCode = 15
  /\ fin.authoritative /\ fin.truncated
  /\ fin.authenticData /\ fin.checkingDisabled
  /\ fout.bytes2 = <<255, 191>> /\ fout.bytes = <<255, 191>>
============================================================================
